---- MODULE Spec2Model ----
(***************************************************************************)
(* A model of the agent core of src/Tutorials/11-functionCalling.py        *)
(* (class AI_Core) and of the tool functions of src/file_system_tools.py.  *)
(*                                                                         *)
(* The module holds several specifications over one set of variables:      *)
(*   SpecFS    the file-system tools called one after another              *)
(*   SpecOut   the capture tasks, the outbound queue and send_realtime     *)
(*   SpecTurn  receive_text draining inbound turns                         *)
(*   SpecTTS   the tts task, its listen sub-task and the queues around it  *)
(*   SpecLife  run / main_task_runner / stop and the life of the tasks     *)
(*   SpecSession  the three tasks that send on the one session             *)
(*   SpecStop  the two callers of stop() on their threads                  *)
(* A specification leaves the variables of the other parts unchanged.      *)
(***************************************************************************)
EXTENDS Integers, Sequences, FiniteSets, TLC

VARIABLES
    fs,         \* the file system: path -> entry
    lastCall,   \* the tool call that ran last (ghost: arguments and status)
    prevCall,   \* the tool call before it when it returned success (ghost)
    preFs       \* the file system before the last call (ghost)

VARIABLES
    is_running,         \* self.is_running
    pc,                 \* task -> the await it is suspended in, or how it ended
    loop_state,         \* where run() is on self.loop: "new" (loop not started),
                        \* "connecting", "running" (gathering) or "finished"
    stopPc,             \* where the thread that called stop() is
    shutdownPc,         \* where the coroutine shutdown_async_tasks is
    timeouts,           \* ghost: how often future.result(timeout=5) timed out
    audio_stream,       \* self.audio_stream: "none", "active" or "closed"
    video_mode,         \* self.video_mode
    text_input_queue    \* self.text_input_queue

VARIABLES
    out_queue_gemini,   \* self.out_queue_gemini
    pending,            \* producer -> the frame of its suspended put, or NoFrame
    sending,            \* the msg send_realtime has passed to session.send
    latest_frame,       \* self.latest_frame
    produced,           \* ghost: the frames put on the outbound queue, in order
    sent,               \* ghost: the frames passed to session.send, in order
    dropped             \* ghost: the frames taken from the queue and discarded

VARIABLES
    turn_urls,          \* receive_text: turn_urls
    turn_code_content,  \* receive_text: turn_code_content
    turn_code_result,   \* receive_text: turn_code_result
    response_queue_tts, \* self.response_queue_tts
    tool_response,      \* the function_responses send_tool_response is sending
    emitted,            \* the signals receive_text has emitted in this turn
    turnNo,             \* ghost: the session.receive() calls made
    nChunks,            \* ghost: the chunks of this turn processed
    seen,               \* ghost: what the chunks of this turn carried
    lastTurn            \* ghost: seen and emitted of the last turn drained

VARIABLES
    text_chunk,             \* tts: text_chunk
    sockets,                \* the synthesis sockets opened so far, in order
    audio_in_queue_player,  \* self.audio_in_queue_player
    submitted               \* ghost: the user texts handed to handle_user_text

fsVars == <<fs, lastCall, prevCall, preFs>>
turnVars == <<turn_urls, turn_code_content, turn_code_result, response_queue_tts,
              tool_response, emitted, turnNo, nChunks, seen, lastTurn>>
lifeVars == <<is_running, pc, loop_state, stopPc, shutdownPc, timeouts,
              audio_stream, video_mode, text_input_queue>>
outVars == <<out_queue_gemini, pending, sending, latest_frame, produced, sent, dropped>>
ttsVars == <<text_chunk, sockets, audio_in_queue_player, submitted>>
vars == <<fsVars, lifeVars, outVars, turnVars, ttsVars>>

(***************************************************************************)
(* Python values that reach the tools as arguments.                        *)
(***************************************************************************)
PyNone == [ty |-> "NoneType", v |-> <<>>]
PyInt(n) == [ty |-> "int", v |-> n]
PyStr(s) == [ty |-> "str", v |-> s]

\* `not x` of Python: None, "" and 0 are falsy
Falsy(x) ==
    \/ x.ty = "NoneType"
    \/ x.ty = "str" /\ x.v = <<>>
    \/ x.ty = "int" /\ x.v = 0

\* isinstance(x, str)
IsStr(x) == x.ty = "str"

(***************************************************************************)
(* The file system.  A path is the sequence of its components, a file's    *)
(* content a sequence of characters.                                       *)
(***************************************************************************)
MaxFileLen == 2

PathSet == {<<"d">>, <<"d", "n">>}

Absent == [kind |-> "absent", data |-> <<>>]
Dir == [kind |-> "dir", data |-> <<>>]
File(data) == [kind |-> "file", data |-> data]

Ancestors(p) == {SubSeq(p, 1, k) : k \in 1..(Len(p) - 1)}

os_path_exists(f, p) == f[p].kind # "absent"

\* every ancestor of p is an existing directory
ParentIsDir(f, p) == \A a \in Ancestors(p) : f[a].kind = "dir"

\* os.makedirs(p): raises when p exists or when an ancestor is a file, else
\* creates p and every missing ancestor
os_makedirs(f, p) ==
    IF os_path_exists(f, p) \/ \E a \in Ancestors(p) : f[a].kind = "file"
    THEN [raised |-> TRUE, fs |-> f]
    ELSE [raised |-> FALSE,
          fs |-> [q \in PathSet |->
                    IF q \in Ancestors(p) \cup {p} /\ f[q].kind = "absent"
                    THEN Dir ELSE f[q]]]

\* with open(p, 'w') as f: f.write(content)
\* open raises when the parent is no directory or p is a directory; it
\* creates or truncates the file; write raises TypeError on a non-string
open_w_write(f, p, content) ==
    IF ~ParentIsDir(f, p) \/ f[p].kind = "dir"
    THEN [raised |-> TRUE, fs |-> f]
    ELSE IF ~IsStr(content)
    THEN [raised |-> TRUE, fs |-> [f EXCEPT ![p] = File(<<>>)]]
    ELSE [raised |-> FALSE, fs |-> [f EXCEPT ![p] = File(content.v)]]

open_a_write_overwrite(f, p, content) ==
    IF ~ParentIsDir(f, p) \/ f[p].kind = "dir"
    THEN [raised |-> TRUE, fs |-> f]
    ELSE IF ~IsStr(content)
    THEN [raised |-> TRUE, fs |-> [f EXCEPT ![p] = File(<<>>)]]
    ELSE [raised |-> FALSE, fs |-> [f EXCEPT ![p] = File(content.v)]]

\* with open(p, 'a') as f: f.write(content)
\* open creates the file when it is missing and keeps its content otherwise
open_a_write(f, p, content) ==
    IF ~ParentIsDir(f, p) \/ f[p].kind = "dir"
    THEN [raised |-> TRUE, fs |-> f]
    ELSE IF ~IsStr(content)
    THEN [raised |-> TRUE, fs |-> [f EXCEPT ![p] = File(f[p].data)]]
    ELSE [raised |-> FALSE, fs |-> [f EXCEPT ![p] = File(f[p].data \o content.v)]]

(***************************************************************************)
(* The tools of AI_Core: each returns a status dictionary.                 *)
(***************************************************************************)
Result(status, message) == [status |-> status, message |-> message]

AI_Core_create_folder(f, folder_path) ==
    IF Falsy(folder_path) \/ ~IsStr(folder_path)
    THEN [fs |-> f, result |-> Result("error", "Invalid folder path provided.")]
    ELSE IF os_path_exists(f, folder_path.v)
    THEN [fs |-> f, result |-> Result("skipped", "already exists")]
    ELSE LET r == os_makedirs(f, folder_path.v) IN
         IF r.raised
         THEN [fs |-> r.fs, result |-> Result("error", "An error occurred")]
         ELSE [fs |-> r.fs, result |-> Result("success", "Successfully created the folder")]

\* _create_file without its `except Exception`: the error of write escapes
AI_Core_create_file_uncaught(f, file_path, content) ==
    IF Falsy(file_path) \/ ~IsStr(file_path)
    THEN [fs |-> f, result |-> Result("error", "Invalid file path provided.")]
    ELSE IF os_path_exists(f, file_path.v)
    THEN [fs |-> f, result |-> Result("skipped", "already exists")]
    ELSE LET r == open_w_write(f, file_path.v, content) IN
         IF r.raised
         THEN [fs |-> r.fs, result |-> Result("raised", "TypeError / OSError")]
         ELSE [fs |-> r.fs, result |-> Result("success", "Successfully created the file")]

AI_Core_create_file(f, file_path, content) ==
    IF Falsy(file_path) \/ ~IsStr(file_path)
    THEN [fs |-> f, result |-> Result("error", "Invalid file path provided.")]
    ELSE IF os_path_exists(f, file_path.v)
    THEN [fs |-> f, result |-> Result("skipped", "already exists")]
    ELSE LET r == open_w_write(f, file_path.v, content) IN
         IF r.raised
         THEN [fs |-> r.fs, result |-> Result("error", "An error occurred while creating the file")]
         ELSE [fs |-> r.fs, result |-> Result("success", "Successfully created the file")]

AI_Core_edit_file(f, file_path, content) ==
    IF Falsy(file_path) \/ ~IsStr(file_path)
    THEN [fs |-> f, result |-> Result("error", "Invalid file path provided.")]
    ELSE IF ~os_path_exists(f, file_path.v)
    THEN [fs |-> f, result |-> Result("error", "does not exist. Please create it first.")]
    ELSE LET r == open_a_write(f, file_path.v, content) IN
         IF r.raised
         THEN [fs |-> r.fs, result |-> Result("error", "An error occurred while editing the file")]
         ELSE [fs |-> r.fs, result |-> Result("success", "Successfully appended content")]

(***************************************************************************)
(* The tools of file_system_tools.py: each returns a string that starts    *)
(* with "Success:" or "Error:"; the model keeps the prefix as the status.  *)
(***************************************************************************)
create_folder(f, folder_path) ==
    IF Falsy(folder_path) \/ ~IsStr(folder_path)
    THEN [fs |-> f, result |-> Result("Error", "Invalid folder path provided.")]
    ELSE IF os_path_exists(f, folder_path.v)
    THEN [fs |-> f, result |-> Result("Error", "already exists.")]
    ELSE LET r == os_makedirs(f, folder_path.v) IN
         IF r.raised
         THEN [fs |-> r.fs, result |-> Result("Error", "Failed to create folder")]
         ELSE [fs |-> r.fs, result |-> Result("Success", "created.")]

create_file(f, file_path, content) ==
    IF Falsy(file_path) \/ ~IsStr(file_path)
    THEN [fs |-> f, result |-> Result("Error", "Invalid file path provided.")]
    ELSE IF os_path_exists(f, file_path.v)
    THEN [fs |-> f, result |-> Result("Error", "already exists.")]
    ELSE LET r == open_w_write(f, file_path.v, content) IN
         IF r.raised
         THEN [fs |-> r.fs, result |-> Result("Error", "Failed to create file")]
         ELSE [fs |-> r.fs, result |-> Result("Success", "created.")]

edit_file(f, file_path, content) ==
    IF Falsy(file_path) \/ ~IsStr(file_path)
    THEN [fs |-> f, result |-> Result("Error", "Invalid file path provided.")]
    ELSE IF ~os_path_exists(f, file_path.v)
    THEN [fs |-> f, result |-> Result("Error", "does not exist. Please create it first.")]
    ELSE LET r == open_a_write(f, file_path.v, content) IN
         IF r.raised
         THEN [fs |-> r.fs, result |-> Result("Error", "Failed to edit file")]
         ELSE [fs |-> r.fs, result |-> Result("Success", "Content appended")]

(***************************************************************************)
(* The tools called one after another with any arguments (SpecFS).         *)
(***************************************************************************)
PathArgs == {PyNone, PyInt(42), PyStr(<<>>)} \cup {PyStr(p) : p \in PathSet}
ContentArgs == {PyNone, PyStr(<<>>), PyStr(<<"h">>), PyStr(<<"i">>)}
Impls == {"AI_Core", "file_system_tools"}

NoCall == [impl |-> "none", tool |-> "none", path |-> PyNone, content |-> PyNone,
           status |-> "none"]

CleanFs == [p \in PathSet |-> Absent]

FsInit ==
    /\ fs = CleanFs
    /\ lastCall = NoCall
    /\ prevCall = NoCall
    /\ preFs = CleanFs

\* the status of a result: the dictionary's status, or the string's prefix
StatusOf(impl, result) ==
    IF impl = "AI_Core" THEN result.status
    ELSE IF result.status = "Success" THEN "success" ELSE "error"

Record(impl, tool, path, content, out) ==
    /\ fs' = out.fs
    /\ lastCall' = [impl |-> impl, tool |-> tool, path |-> path, content |-> content,
                    status |-> StatusOf(impl, out.result)]
    /\ prevCall' = IF lastCall.status = "success" THEN lastCall ELSE NoCall
    /\ preFs' = fs
    /\ UNCHANGED <<lifeVars, outVars, turnVars, ttsVars>>

\* a file never grows past MaxFileLen characters
FitsBound(path, content) ==
    (IsStr(path) /\ path.v \in PathSet /\ IsStr(content))
        => Len(fs[path.v].data) + Len(content.v) <= MaxFileLen

CallCreateFolder ==
    \E impl \in Impls, path \in PathArgs :
        Record(impl, "create_folder", path, PyNone,
               IF impl = "AI_Core" THEN AI_Core_create_folder(fs, path)
               ELSE create_folder(fs, path))

CallCreateFile ==
    \E impl \in Impls, path \in PathArgs, content \in ContentArgs :
        Record(impl, "create_file", path, content,
               IF impl = "AI_Core" THEN AI_Core_create_file(fs, path, content)
               ELSE create_file(fs, path, content))

CallEditFile ==
    \E impl \in Impls, path \in PathArgs, content \in ContentArgs :
        /\ FitsBound(path, content)
        /\ Record(impl, "edit_file", path, content,
                  IF impl = "AI_Core" THEN AI_Core_edit_file(fs, path, content)
                  ELSE edit_file(fs, path, content))

NextFS == CallCreateFolder \/ CallCreateFile \/ CallEditFile

(***************************************************************************)
(* Claims about the tools (SpecFS).                                        *)
(***************************************************************************)
CreateTools == {"create_folder", "create_file"}

\* the arguments of a create call are valid for the file system f: a
\* non-empty string path under an existing directory (create_folder makes
\* the missing directories itself) and, for create_file, a string content
ValidCreate(call, f) ==
    /\ call.tool \in CreateTools
    /\ IsStr(call.path) /\ call.path.v \in PathSet
    /\ IF call.tool = "create_file"
       THEN ParentIsDir(f, call.path.v) /\ IsStr(call.content)
       ELSE \A a \in Ancestors(call.path.v) : f[a].kind # "file"

SameCall(a, b) ==
    /\ a.impl = b.impl /\ a.tool = b.tool
    /\ a.path = b.path /\ a.content = b.content

\* C2: create_folder and create_file are idempotent. A create call with a
\* valid path that does not exist returns success, and the same call made
\* again right after it returns skipped, never error.
C2_CreateIdempotent ==
    /\ (ValidCreate(lastCall, preFs) /\ ~os_path_exists(preFs, lastCall.path.v))
           => lastCall.status = "success"
    /\ (prevCall.tool \in CreateTools /\ SameCall(prevCall, lastCall))
           => lastCall.status = "skipped"

\* the part of C2 that the tools of AI_Core satisfy
C2_AICoreIdempotent ==
    lastCall.impl = "AI_Core" => C2_CreateIdempotent

C2_AICoreSecondCall ==
    /\ lastCall.impl = "AI_Core" /\ lastCall.tool = "create_file"
    /\ SameCall(prevCall, lastCall) /\ lastCall.status = "skipped"

\* C3: edit_file on a path that does not exist returns error and leaves the
\* file system as it was; edit_file on an existing file with a string
\* content returns success and the file then holds its former content
\* followed by exactly the given content.
C3_EditAppends ==
    lastCall.tool = "edit_file" =>
        LET p == lastCall.path
            isPath == IsStr(p) /\ p.v \in PathSet
        IN  /\ ~(isPath /\ os_path_exists(preFs, p.v))
                   => lastCall.status = "error" /\ fs = preFs
            /\ (isPath /\ preFs[p.v].kind = "file" /\ IsStr(lastCall.content))
                   => /\ lastCall.status = "success"
                      /\ fs[p.v] = File(preFs[p.v].data \o lastCall.content.v)
                      /\ \A q \in PathSet \ {p.v} : fs[q] = preFs[q]

C3_Witness ==
    /\ lastCall.tool = "edit_file" /\ lastCall.status = "success"
    /\ IsStr(lastCall.path) /\ lastCall.path.v \in PathSet
    /\ preFs[lastCall.path.v].data = <<"h">>
    /\ fs[lastCall.path.v].data = <<"h", "i">>

\* C29: a tool call that returned skipped or error has left every file and
\* folder as it was before the call.
C29_OnlySuccessModifies ==
    lastCall.status \in {"skipped", "error"} => fs = preFs

\* the same for the calls whose content argument is a string
C29_StringContent ==
    (lastCall.tool = "create_folder" \/ IsStr(lastCall.content))
        => C29_OnlySuccessModifies

(***************************************************************************)
(* The tasks of AI_Core and their cancellation.                            *)
(***************************************************************************)
Tasks == {"tts", "process_text_input_queue", "play_audio",
          "stream_camera_to_gui", "send_frames_to_gemini", "listen_audio",
          "send_realtime", "receive_text"}

\* no send_tool_response under way
NoResponse == [inflight |-> FALSE, function_responses |-> <<>>]

\* how a task that no longer runs ended
Ended == {"unspawned", "done", "failed", "cancelled"}

\* the task t is suspended at the await `at`
At(t, at) == pc[t] = at

\* the loop condition `while self.is_running` of a task about to suspend in `at`
\* self.loop.is_running(): run() is connecting the session or gathering
LoopIsRunning == loop_state \in {"connecting", "running"}

WhileRunning(at) == IF is_running THEN at ELSE "done"

(***************************************************************************)
(* The outbound queue: asyncio.Queue(maxsize=20).                          *)
(***************************************************************************)
OutQueueMaxsize == 20

MaxAudio == 20      \* chunks the microphone delivers
MaxImages == 1      \* frames the downsampler forwards

\* no frame held
NoFrame == [mime |-> "none", data |-> 0]
Producers == {"listen_audio", "send_frames_to_gemini"}

\* asyncio.Queue.full()
Full(q) == Len(q) >= OutQueueMaxsize

Count(seq, mime) == Cardinality({i \in 1..Len(seq) : seq[i].mime = mime})

\* the frames a producer has handed over or holds in a suspended put
Made(t, mime) == Count(produced, mime) + (IF pending[t] = NoFrame THEN 0 ELSE 1)

\* a put on a queue without maxsize: it never suspends
PutUnbounded(t, frame, at) ==
    /\ out_queue_gemini' = Append(out_queue_gemini, frame)
    /\ produced' = Append(produced, frame)
    /\ pc' = [pc EXCEPT ![t] = WhileRunning(at)]
    /\ UNCHANGED pending

\* await self.out_queue_gemini.put(frame) by producer t, which then goes on
\* to the await `at` of its loop: the put returns at once when there is room,
\* else the producer suspends holding the frame
Put(t, frame, at) ==
    IF Full(out_queue_gemini)
    THEN /\ pending' = [pending EXCEPT ![t] = frame]
         /\ pc' = [pc EXCEPT ![t] = "put"]
         /\ UNCHANGED <<out_queue_gemini, produced>>
    ELSE /\ out_queue_gemini' = Append(out_queue_gemini, frame)
         /\ produced' = Append(produced, frame)
         /\ pc' = [pc EXCEPT ![t] = WhileRunning(at)]
         /\ UNCHANGED pending

\* a suspended put resumes once the queue has room
PutResumed(t, at) ==
    /\ At(t, "put")
    /\ ~Full(out_queue_gemini)
    /\ out_queue_gemini' = Append(out_queue_gemini, pending[t])
    /\ produced' = Append(produced, pending[t])
    /\ pending' = [pending EXCEPT ![t] = NoFrame]
    /\ pc' = [pc EXCEPT ![t] = WhileRunning(at)]

outFrame == <<is_running, loop_state, stopPc, shutdownPc, timeouts,
              audio_stream, video_mode, text_input_queue, turnVars, ttsVars>>

\* listen_audio: the blocking read of the microphone returns a chunk
listen_audio_read ==
    /\ At("listen_audio", "read")
    /\ Made("listen_audio", "audio/pcm") < MaxAudio
    /\ IF ~is_running
       THEN /\ pc' = [pc EXCEPT !["listen_audio"] = "done"]
            /\ UNCHANGED <<out_queue_gemini, pending, produced>>
       ELSE Put("listen_audio",
                [mime |-> "audio/pcm", data |-> Count(produced, "audio/pcm") + 1],
                "read")
    /\ UNCHANGED <<sending, latest_frame, sent, dropped>>
    /\ UNCHANGED <<outFrame, fsVars>>

listen_audio_put ==
    /\ PutResumed("listen_audio", "read")
    /\ UNCHANGED <<sending, latest_frame, sent, dropped>>
    /\ UNCHANGED <<outFrame, fsVars>>

\* stream_camera_to_gui, one round of its loop: cap.read returns, a frame
\* read is stored as latest_frame, the task sleeps and tests is_running
stream_camera_to_gui ==
    /\ At("stream_camera_to_gui", "read")
    /\ \E ret \in BOOLEAN :
        latest_frame' = IF ret THEN "frame" ELSE latest_frame
    /\ pc' = [pc EXCEPT !["stream_camera_to_gui"] = WhileRunning("read")]
    /\ UNCHANGED <<out_queue_gemini, pending, sending, produced, sent, dropped>>
    /\ UNCHANGED <<outFrame, fsVars>>

\* send_frames_to_gemini: asyncio.sleep(1.0) is over; the latest frame, if
\* there is one, is encoded and put on the queue (is_running is not read
\* between the sleep and the put)
send_frames_wake ==
    /\ At("send_frames_to_gemini", "sleep")
    /\ IF latest_frame = "None"
       THEN /\ pc' = [pc EXCEPT !["send_frames_to_gemini"] = WhileRunning("sleep")]
            /\ UNCHANGED <<out_queue_gemini, pending, produced>>
       ELSE /\ Made("send_frames_to_gemini", "image/jpeg") < MaxImages
            /\ Put("send_frames_to_gemini",
                   [mime |-> "image/jpeg", data |-> Count(produced, "image/jpeg") + 1],
                   "sleep")
    /\ UNCHANGED <<sending, latest_frame, sent, dropped>>
    /\ UNCHANGED <<outFrame, fsVars>>

send_frames_put ==
    /\ PutResumed("send_frames_to_gemini", "sleep")
    /\ UNCHANGED <<sending, latest_frame, sent, dropped>>
    /\ UNCHANGED <<outFrame, fsVars>>

\* Take on a queue that hands out its newest item
TakeNewest ==
    LET msg == out_queue_gemini[Len(out_queue_gemini)] IN
    /\ out_queue_gemini' = SubSeq(out_queue_gemini, 1, Len(out_queue_gemini) - 1)
    /\ IF ~is_running
       THEN /\ dropped' = Append(dropped, msg)
            /\ pc' = [pc EXCEPT !["send_realtime"] = "done"]
            /\ UNCHANGED <<sending, sent>>
       ELSE /\ sent' = Append(sent, msg)
            /\ sending' = msg
            /\ pc' = [pc EXCEPT !["send_realtime"] = "send"]
            /\ UNCHANGED dropped

\* send_realtime from `msg = await self.out_queue_gemini.get()` on, with a
\* msg at the head of the queue: the msg is taken; it is discarded when
\* is_running is false, else passed to session.send
Take ==
    /\ out_queue_gemini' = Tail(out_queue_gemini)
    /\ IF ~is_running
       THEN /\ dropped' = Append(dropped, Head(out_queue_gemini))
            /\ pc' = [pc EXCEPT !["send_realtime"] = "done"]
            /\ UNCHANGED <<sending, sent>>
       ELSE /\ sent' = Append(sent, Head(out_queue_gemini))
            /\ sending' = Head(out_queue_gemini)
            /\ pc' = [pc EXCEPT !["send_realtime"] = "send"]
            /\ UNCHANGED dropped

\* the suspended get resumes with a msg
send_realtime_get ==
    /\ At("send_realtime", "get")
    /\ out_queue_gemini # <<>>
    /\ Take
    /\ UNCHANGED <<pending, latest_frame, produced>>
    /\ UNCHANGED <<outFrame, fsVars>>

\* session.send returns: task_done, the loop condition, the next get
send_realtime_sent ==
    /\ At("send_realtime", "send")
    /\ IF ~is_running
       THEN /\ pc' = [pc EXCEPT !["send_realtime"] = "done"]
            /\ sending' = NoFrame
            /\ UNCHANGED <<out_queue_gemini, sent, dropped>>
       ELSE IF out_queue_gemini = <<>>
       THEN /\ pc' = [pc EXCEPT !["send_realtime"] = "get"]
            /\ sending' = NoFrame
            /\ UNCHANGED <<out_queue_gemini, sent, dropped>>
       ELSE Take
    /\ UNCHANGED <<pending, latest_frame, produced>>
    /\ UNCHANGED <<outFrame, fsVars>>

\* session.send raises: nothing in send_realtime catches it, the task ends
send_realtime_raise ==
    /\ At("send_realtime", "send")
    /\ pc' = [pc EXCEPT !["send_realtime"] = "failed"]
    /\ sending' = NoFrame
    /\ UNCHANGED <<out_queue_gemini, pending, latest_frame, produced, sent, dropped>>
    /\ UNCHANGED <<outFrame, fsVars>>

(***************************************************************************)
(* receive_text: the inbound turns.                                        *)
(***************************************************************************)
MaxTurns == 2       \* session.receive() calls
MaxChunks == 3      \* chunks the backend sends in one turn

\* fc.args: a key that is missing reads as None (args.get)
Args(folder_path, file_path, content) ==
    [folder_path |-> folder_path, file_path |-> file_path, content |-> content]

FunctionCall(id, name, args) == [id |-> id, name |-> name, args |-> args]

\* a code fragment is a sequence of pieces of text
Contains(code, piece) == \E i \in 1..Len(code) : code[i] = piece

\* 'print(' in code or '\n' in code or 'import ' in code
IsExecutedCode(code) ==
    Contains(code, "print(") \/ Contains(code, "\n") \/ Contains(code, "import ")

\* the parts of a model turn
ExecutableCode(code) == [kind |-> "executable_code", code |-> code, output |-> ""]
CodeExecutionResult(output) ==
    [kind |-> "code_execution_result", code |-> <<>>, output |-> output]

\* a chunk of a turn: tool calls, or server content with grounding chunks
\* (the uri of each, "" for none), model-turn parts and text
ToolCallChunk(fcs) ==
    [tool_call |-> fcs, server_content |-> FALSE, grounding_chunks |-> <<>>,
     parts |-> <<>>, text |-> ""]
ContentChunk(uris, parts, text) ==
    [tool_call |-> <<>>, server_content |-> TRUE, grounding_chunks |-> uris,
     parts |-> parts, text |-> text]

\* a chunk that carries function calls and a text delta
MixedChunk(fcs, text) ==
    [tool_call |-> fcs, server_content |-> TRUE, grounding_chunks |-> <<>>,
     parts |-> <<>>, text |-> text]

\* the chunks the backend sends
ChunkSet ==
    { ToolCallChunk(<<FunctionCall("c1", "create_folder",
                                   Args(PyStr(<<"d">>), PyNone, PyNone))>>),
      ToolCallChunk(<<FunctionCall("c2", "create_file",
                                   Args(PyNone, PyStr(<<"d", "n">>), PyStr(<<"h">>))),
                      FunctionCall("c3", "edit_file",
                                   Args(PyNone, PyStr(<<"d", "n">>), PyStr(<<"i">>)))>>),
      ToolCallChunk(<<FunctionCall("c4", "create_file", Args(PyNone, PyNone, PyNone)),
                      FunctionCall("c5", "get_weather", Args(PyNone, PyNone, PyNone))>>),
      ContentChunk(<<>>, <<>>, "Hi"),
      ContentChunk(<<"u1", "", "u2">>, <<>>, ""),
      ContentChunk(<<>>, <<ExecutableCode(<<"print(", "1+1", ")">>)>>, ""),
      ContentChunk(<<>>, <<ExecutableCode(<<"import ", "os", "\n", "os.getcwd()">>),
                           CodeExecutionResult("/")>>, ""),
      ContentChunk(<<>>, <<ExecutableCode(<<"weather today">>)>>, ""),
      ContentChunk(<<>>, <<CodeExecutionResult("2")>>, ""),
      ContentChunk(<<"u1">>, <<ExecutableCode(<<"print(", "2", ")">>)>>, "") }

\* the for loop over chunk.tool_call.function_calls: each known tool runs
\* on the file system and its result is appended to function_responses
RECURSIVE Dispatch(_, _, _)
Dispatch(fcs, f, function_responses) ==
    IF fcs = <<>> THEN [fs |-> f, function_responses |-> function_responses]
    ELSE LET fc == Head(fcs)
             out == CASE fc.name = "create_folder" ->
                            AI_Core_create_folder(f, fc.args.folder_path)
                      [] fc.name = "create_file" ->
                            AI_Core_create_file(f, fc.args.file_path, fc.args.content)
                      [] fc.name = "edit_file" ->
                            AI_Core_edit_file(f, fc.args.file_path, fc.args.content)
                      [] OTHER -> [fs |-> f, result |-> Result("none", "")]
         IN  IF fc.name \in {"create_folder", "create_file", "edit_file"}
             THEN Dispatch(Tail(fcs), out.fs,
                           Append(function_responses,
                                  [id |-> fc.id, name |-> fc.name, response |-> out.result]))
             ELSE Dispatch(Tail(fcs), f, function_responses)

\* the grounding chunks of a chunk that have a uri
RECURSIVE Uris(_)
Uris(grounding_chunks) ==
    IF grounding_chunks = <<>> THEN {}
    ELSE (IF Head(grounding_chunks) # "" THEN {Head(grounding_chunks)} ELSE {})
         \cup Uris(Tail(grounding_chunks))

\* the loop over model_turn.parts: the code of the last executed-code part
\* and the output of the last result part replace the ones held
RECURSIVE Parts(_, _, _)
Parts(parts, code, result) ==
    IF parts = <<>> THEN [code |-> code, result |-> result]
    ELSE LET part == Head(parts) IN
         Parts(Tail(parts),
               IF part.kind = "executable_code" /\ IsExecutedCode(part.code)
               THEN part.code ELSE code,
               IF part.kind = "code_execution_result" THEN part.output ELSE result)

\* the signals of the turn's tool-activity summary, in the order emitted
SummaryUrlsFirst(code, result, urls) ==
    IF urls # {}
    THEN <<[signal |-> "search_results_received", urls |-> urls, code |-> <<>>, result |-> ""],
           [signal |-> "code_being_executed", urls |-> {}, code |-> <<>>, result |-> ""]>>
    ELSE IF code # <<>>
    THEN <<[signal |-> "code_being_executed", urls |-> {}, code |-> code, result |-> result],
           [signal |-> "search_results_received", urls |-> {}, code |-> <<>>, result |-> ""]>>
    ELSE <<[signal |-> "search_results_received", urls |-> {}, code |-> <<>>, result |-> ""],
           [signal |-> "code_being_executed", urls |-> {}, code |-> <<>>, result |-> ""]>>

Summary(code, result, urls) ==
    IF code # <<>>
    THEN <<[signal |-> "code_being_executed", urls |-> {}, code |-> code, result |-> result],
           [signal |-> "search_results_received", urls |-> {}, code |-> <<>>, result |-> ""]>>
    ELSE IF urls # {}
    THEN <<[signal |-> "search_results_received", urls |-> urls, code |-> <<>>, result |-> ""],
           [signal |-> "code_being_executed", urls |-> {}, code |-> <<>>, result |-> ""]>>
    ELSE <<[signal |-> "search_results_received", urls |-> {}, code |-> <<>>, result |-> ""],
           [signal |-> "code_being_executed", urls |-> {}, code |-> <<>>, result |-> ""]>>

TextReceived(text) ==
    [signal |-> "text_received", urls |-> {}, code |-> <<>>, result |-> text]
EndOfTurn == [signal |-> "end_of_turn", urls |-> {}, code |-> <<>>, result |-> ""]

\* ghost: what the chunks of the turn carried, whatever the loop did with
\* it, the function calls of the chunk whose responses are being sent, and
\* the text of the chunk that came last
NothingSeen == [codes |-> <<>>, results |-> <<>>, urls |-> {}, calls |-> <<>>,
                text |-> ""]

\* ghost: the turn that has just ended, held until the next chunk arrives
NoTurn == [seen |-> NothingSeen, emitted |-> <<>>, turnNo |-> 0]

RECURSIVE SeenParts(_, _)
SeenParts(parts, s) ==
    IF parts = <<>> THEN s
    ELSE LET part == Head(parts) IN
         SeenParts(Tail(parts),
                   [s EXCEPT !.codes = IF part.kind = "executable_code"
                                          /\ IsExecutedCode(part.code)
                                       THEN Append(@, part.code) ELSE @,
                             !.results = IF part.kind = "code_execution_result"
                                         THEN Append(@, part.output) ELSE @])

See(chunk) ==
    SeenParts(chunk.parts, [seen EXCEPT !.urls = @ \cup Uris(chunk.grounding_chunks),
                                        !.calls = chunk.tool_call,
                                        !.text = chunk.text])

turnFrame == <<loop_state, stopPc, shutdownPc, timeouts, audio_stream, video_mode,
               text_input_queue, is_running, ttsVars>>

\* the top of the loop with turn_urls created once, outside the loop
NewTurnKeepsUrls ==
    /\ turn_urls' = turn_urls
    /\ turn_code_content' = <<>>
    /\ turn_code_result' = ""
    /\ emitted' = <<>>
    /\ nChunks' = 0
    /\ seen' = NothingSeen
    /\ turnNo' = turnNo + 1
    /\ pc' = [pc EXCEPT !["receive_text"] = "receive"]

\* the top of `while self.is_running`: the turn's buffers are emptied and
\* session.receive() is called; the task then waits for the first chunk
NewTurn ==
    /\ turn_urls' = {}
    /\ turn_code_content' = <<>>
    /\ turn_code_result' = ""
    /\ emitted' = <<>>
    /\ nChunks' = 0
    /\ seen' = NothingSeen
    /\ turnNo' = turnNo + 1
    /\ pc' = [pc EXCEPT !["receive_text"] = "receive"]

\* the while loop goes round: a new turn while is_running, else the task ends
LoopReceive ==
    IF is_running /\ turnNo < MaxTurns
    THEN NewTurn
    ELSE /\ pc' = [pc EXCEPT !["receive_text"] = IF is_running THEN "idle" ELSE "done"]
         /\ UNCHANGED <<turn_urls, turn_code_content, turn_code_result, emitted,
                        nChunks, seen, turnNo>>

\* a file never grows past MaxFileLen characters
ChunkFits(chunk) ==
    \A p \in PathSet : Len(Dispatch(chunk.tool_call, fs, <<>>).fs[p].data) <= MaxFileLen

\* the turn yields a chunk with function calls: the tools run, the
\* responses are handed to session.send_tool_response, which is awaited
ReceiveToolCall(chunks) ==
    /\ At("receive_text", "receive")
    /\ nChunks < MaxChunks
    /\ \E chunk \in chunks :
        /\ chunk.tool_call # <<>>
        /\ ChunkFits(chunk)
        /\ LET out == Dispatch(chunk.tool_call, fs, <<>>) IN
            /\ fs' = out.fs
            /\ tool_response' = [inflight |-> TRUE,
                                 function_responses |-> out.function_responses]
        /\ seen' = See(chunk)
    /\ nChunks' = nChunks + 1
    /\ lastTurn' = NoTurn
    /\ pc' = [pc EXCEPT !["receive_text"] = "send_tool_response"]
    /\ UNCHANGED <<turn_urls, turn_code_content, turn_code_result, response_queue_tts,
                   emitted, turnNo>>
    /\ UNCHANGED <<lastCall, prevCall, preFs, turnFrame, outVars>>

\* receive_tool_call with the response sent by a task of its own, the loop
\* going on to the next chunk without awaiting it
receive_tool_call_unawaited ==
    /\ At("receive_text", "receive")
    /\ nChunks < MaxChunks
    /\ \E chunk \in ChunkSet :
        /\ chunk.tool_call # <<>>
        /\ ChunkFits(chunk)
        /\ LET out == Dispatch(chunk.tool_call, fs, <<>>) IN
            /\ fs' = out.fs
            /\ tool_response' = [inflight |-> TRUE,
                                 function_responses |-> out.function_responses]
        /\ seen' = See(chunk)
    /\ nChunks' = nChunks + 1
    /\ lastTurn' = NoTurn
    /\ UNCHANGED <<turn_urls, turn_code_content, turn_code_result, response_queue_tts,
                   emitted, turnNo, pc>>
    /\ UNCHANGED <<lastCall, prevCall, preFs, turnFrame, outVars>>

receive_tool_call == ReceiveToolCall(ChunkSet)

\* send_tool_response returns; `continue` takes the loop to the next chunk
tool_response_sent ==
    /\ At("receive_text", "send_tool_response")
    /\ tool_response' = NoResponse
    /\ pc' = [pc EXCEPT !["receive_text"] = "receive"]
    /\ seen' = [seen EXCEPT !.calls = <<>>]
    /\ UNCHANGED <<turn_urls, turn_code_content, turn_code_result, response_queue_tts,
                   emitted, turnNo, nChunks, lastTurn>>
    /\ UNCHANGED <<fsVars, turnFrame, outVars>>

\* the turn yields a chunk without function calls: grounding uris and code
\* go to the turn's buffers, text to the output and the tts queue (a put on
\* the unbounded queue does not suspend)
ReceiveContent(chunks) ==
    /\ At("receive_text", "receive")
    /\ nChunks < MaxChunks
    /\ \E chunk \in chunks :
        /\ chunk.tool_call = <<>>
        /\ turn_urls' = IF chunk.server_content
                        THEN turn_urls \cup Uris(chunk.grounding_chunks) ELSE turn_urls
        /\ LET b == IF chunk.server_content
                    THEN Parts(chunk.parts, turn_code_content, turn_code_result)
                    ELSE [code |-> turn_code_content, result |-> turn_code_result]
           IN  /\ turn_code_content' = b.code
               /\ turn_code_result' = b.result
        /\ IF chunk.text # ""
           THEN /\ emitted' = Append(emitted, TextReceived(chunk.text))
                /\ response_queue_tts' = Append(response_queue_tts, chunk.text)
           ELSE UNCHANGED <<emitted, response_queue_tts>>
        /\ seen' = See(chunk)
    /\ nChunks' = nChunks + 1
    /\ lastTurn' = NoTurn
    /\ UNCHANGED <<tool_response, turnNo, pc>>
    /\ UNCHANGED <<fsVars, turnFrame, outVars>>

receive_content == ReceiveContent(ChunkSet)

\* turn_complete with the sentinel put while the turn is still being drained
turn_complete_early ==
    /\ At("receive_text", "receive")
    /\ response_queue_tts' = Append(response_queue_tts, "None")
    /\ UNCHANGED <<turn_urls, turn_code_content, turn_code_result, tool_response,
                   emitted, turnNo, nChunks, seen, lastTurn, pc>>
    /\ UNCHANGED <<fsVars, turnFrame, outVars>>

\* the turn is over: the summary and end_of_turn are emitted, the sentinel
\* is put on the tts queue, and the loop goes round
turn_complete ==
    /\ At("receive_text", "receive")
    /\ LET out == emitted \o Summary(turn_code_content, turn_code_result, turn_urls)
                          \o <<EndOfTurn>>
       IN  lastTurn' = [seen |-> seen, emitted |-> out, turnNo |-> turnNo]
    /\ response_queue_tts' = Append(response_queue_tts, "None")
    /\ LoopReceive
    /\ UNCHANGED tool_response
    /\ UNCHANGED <<fsVars, turnFrame, outVars>>

\* session.receive or send_tool_response raises and nothing catches it
receive_raise_uncaught ==
    /\ pc["receive_text"] \in {"receive", "send_tool_response"}
    /\ tool_response' = NoResponse
    /\ pc' = [pc EXCEPT !["receive_text"] = "failed"]
    /\ UNCHANGED <<turn_urls, turn_code_content, turn_code_result, emitted,
                   nChunks, seen, turnNo>>
    /\ UNCHANGED <<response_queue_tts, lastTurn>>
    /\ UNCHANGED <<fsVars, turnFrame, outVars>>

\* session.receive or send_tool_response raises: `except Exception` ends
\* the task when is_running is false, else logs and the loop goes round
receive_raise ==
    /\ pc["receive_text"] \in {"receive", "send_tool_response"}
    /\ tool_response' = NoResponse
    /\ LoopReceive
    /\ UNCHANGED <<response_queue_tts, lastTurn>>
    /\ UNCHANGED <<fsVars, turnFrame, outVars>>

(***************************************************************************)
(* tts with its listen sub-task, and process_text_input_queue.             *)
(***************************************************************************)
MaxTexts == 1       \* user texts submitted
MaxErrors == 1      \* synthesis sockets that fail
MaxPlayback == 1    \* audio chunks waiting on audio_in_queue_player

\* the turns the backend sends while tts is watched: the text chunks
\* "Hello", " world", "!", "!", ... or as many of them as the turn has
TextOf(i) == IF i = 1 THEN "Hello" ELSE IF i = 2 THEN " world" ELSE "!"
TextChunks == {ContentChunk(<<>>, <<>>, TextOf(nChunks + 1))}

receive_text_chunk == ReceiveContent(TextChunks)

\* text_chunk with the padding left out
PadNothing(text) == text

\* text_chunk + " "
Pad(text) == text \o " "

\* a synthesis socket (or a refused attempt to open one): the texts sent on it, the items tts took from the
\* queue while it held the socket (ghost), how it ended, and where the
\* listen sub-task created for it is
Websocket(first) ==
    [texts |-> <<>>, pulled |-> <<first>>, status |-> "open", listen |-> "none",
     final |-> FALSE]

\* the awaits of tts inside `async with websockets.connect(uri)`
InSocket == {"send_config", "send_first", "inner_get", "send_chunk", "send_final",
             "await_listen"}

Cur == Len(sockets)
Failed == {i \in 1..Len(sockets) : sockets[i].status \in {"refused", "error"}}
Sent(text) == [sockets EXCEPT ![Cur].texts = Append(@, text)]
\* leaving the `async with` block without closing the socket
CloseSocketLeak(how) == sockets

CloseSocket(how) == [sockets EXCEPT ![Cur].status = how]

\* websockets.connect suspends tts until the network has answered, and the
\* event loop runs every task that is ready in the meantime: a listen task
\* whose socket has been closed is ready (it has not run yet, or its recv
\* raises ConnectionClosed), and ends without suspending again
NoReadyListen ==
    \A i \in 1..Len(sockets) :
        sockets[i].status = "open" \/ sockets[i].listen \notin {"start", "recv"}

turnRest == <<turn_urls, turn_code_content, turn_code_result, tool_response, emitted,
              turnNo, nChunks, seen, lastTurn>>
lifeRest == <<is_running, loop_state, stopPc, shutdownPc, timeouts, audio_stream, video_mode>>
ttsFrame == <<fsVars, outVars, turnRest, lifeRest, submitted>>

\* the outer get returns: None, or any item once is_running is false, is
\* dropped and the loop goes round; else the socket is being connected
tts_get ==
    /\ At("tts", "get")
    /\ response_queue_tts # <<>>
    /\ text_chunk' = Head(response_queue_tts)
    /\ response_queue_tts' = Tail(response_queue_tts)
    /\ pc' = [pc EXCEPT !["tts"] =
                 IF Head(response_queue_tts) = "None" \/ ~is_running
                 THEN WhileRunning("get") ELSE "connect"]
    /\ UNCHANGED <<sockets, audio_in_queue_player, text_input_queue, ttsFrame>>

tts_connected ==
    /\ At("tts", "connect")
    /\ NoReadyListen
    /\ sockets' = Append(sockets, Websocket(text_chunk))
    /\ pc' = [pc EXCEPT !["tts"] = "send_config"]
    /\ UNCHANGED <<text_chunk, response_queue_tts, audio_in_queue_player,
                   text_input_queue, ttsFrame>>

\* websockets.connect raises: logged by `except Exception`, the loop goes round
tts_connect_raise ==
    /\ At("tts", "connect")
    /\ NoReadyListen
    /\ Cardinality(Failed) < MaxErrors
    /\ sockets' = Append(sockets, [Websocket(text_chunk) EXCEPT !.status = "refused"])
    /\ pc' = [pc EXCEPT !["tts"] = WhileRunning("get")]
    /\ UNCHANGED <<text_chunk, response_queue_tts, audio_in_queue_player,
                   text_input_queue, ttsFrame>>

\* the configuration message is sent; the listen task is created
tts_config_sent ==
    /\ At("tts", "send_config")
    /\ sockets' = [Sent(" ") EXCEPT ![Cur].listen = "start"]
    /\ pc' = [pc EXCEPT !["tts"] = "send_first"]
    /\ UNCHANGED <<text_chunk, response_queue_tts, audio_in_queue_player,
                   text_input_queue, ttsFrame>>

\* response_queue_tts.get() of the inner loop returns an item
Pull(s1) ==
    LET item == Head(response_queue_tts) IN
    /\ text_chunk' = item
    /\ response_queue_tts' = Tail(response_queue_tts)
    /\ sockets' = [s1 EXCEPT ![Cur].pulled = Append(@, item)]
    /\ pc' = [pc EXCEPT !["tts"] = IF item = "None" THEN "send_final" ELSE "send_chunk"]

\* `while self.is_running` of the inner loop after a send has returned
InnerLoop(s1) ==
    IF ~is_running
    THEN /\ pc' = [pc EXCEPT !["tts"] = "await_listen"]
         /\ sockets' = s1
         /\ UNCHANGED <<text_chunk, response_queue_tts>>
    ELSE IF response_queue_tts = <<>>
    THEN /\ pc' = [pc EXCEPT !["tts"] = "inner_get"]
         /\ sockets' = s1
         /\ UNCHANGED <<text_chunk, response_queue_tts>>
    ELSE Pull(s1)

\* the send of the first chunk of the socket returns
tts_first_sent ==
    /\ At("tts", "send_first")
    /\ InnerLoop(Sent(Pad(text_chunk)))
    /\ UNCHANGED <<audio_in_queue_player, text_input_queue, ttsFrame>>

\* the get of the inner loop, suspended on the empty queue, returns
tts_inner_get ==
    /\ At("tts", "inner_get")
    /\ response_queue_tts # <<>>
    /\ Pull(sockets)
    /\ UNCHANGED <<audio_in_queue_player, text_input_queue, ttsFrame>>

\* the send of a later chunk returns
tts_chunk_sent ==
    /\ At("tts", "send_chunk")
    /\ InnerLoop(Sent(Pad(text_chunk)))
    /\ UNCHANGED <<audio_in_queue_player, text_input_queue, ttsFrame>>

\* tts_final_sent without the break
tts_final_sent_nobreak ==
    /\ At("tts", "send_final")
    /\ InnerLoop(Sent(""))
    /\ UNCHANGED <<audio_in_queue_player, text_input_queue, ttsFrame>>

\* the send of {"text": ""} returns; break, then `await listen_task`
tts_final_sent ==
    /\ At("tts", "send_final")
    /\ sockets' = Sent("")
    /\ pc' = [pc EXCEPT !["tts"] = "await_listen"]
    /\ UNCHANGED <<text_chunk, response_queue_tts, audio_in_queue_player,
                   text_input_queue, ttsFrame>>

\* listen_task is done: the socket is closed by `async with`, the loop goes round
tts_listen_awaited ==
    /\ At("tts", "await_listen")
    /\ sockets[Cur].listen = "done"
    /\ sockets' = CloseSocket("closed")
    /\ pc' = [pc EXCEPT !["tts"] = WhileRunning("get")]
    /\ UNCHANGED <<text_chunk, response_queue_tts, audio_in_queue_player,
                   text_input_queue, ttsFrame>>

\* listen_task has ended with an exception, which `await listen_task`
\* raises again: the socket is closed by `async with`, the error is logged
\* by `except Exception`, the loop goes round
tts_listen_raised ==
    /\ At("tts", "await_listen")
    /\ sockets[Cur].listen = "raised"
    /\ sockets' = CloseSocket("error")
    /\ pc' = [pc EXCEPT !["tts"] = WhileRunning("get")]
    /\ UNCHANGED <<text_chunk, response_queue_tts, audio_in_queue_player,
                   text_input_queue, ttsFrame>>

\* a websocket.send raises and nothing catches it
tts_send_raise_uncaught ==
    /\ pc["tts"] \in {"send_config", "send_first", "send_chunk", "send_final"}
    /\ Cardinality(Failed) < MaxErrors
    /\ sockets' = CloseSocket("error")
    /\ pc' = [pc EXCEPT !["tts"] = "failed"]
    /\ UNCHANGED <<text_chunk, response_queue_tts, audio_in_queue_player,
                   text_input_queue, ttsFrame>>

\* a websocket.send raises: the socket is closed by `async with`, the error
\* is logged by `except Exception`, the loop goes round
tts_send_raise ==
    /\ pc["tts"] \in {"send_config", "send_first", "send_chunk", "send_final"}
    /\ Cardinality(Failed) < MaxErrors
    /\ sockets' = CloseSocket("error")
    /\ pc' = [pc EXCEPT !["tts"] = WhileRunning("get")]
    /\ UNCHANGED <<text_chunk, response_queue_tts, audio_in_queue_player,
                   text_input_queue, ttsFrame>>

\* the listen task of socket i runs for the first time
listen_start ==
    /\ \E i \in 1..Len(sockets) :
        /\ sockets[i].listen = "start"
        /\ sockets' = [sockets EXCEPT ![i].listen = WhileRunning("recv")]
    /\ UNCHANGED <<pc, text_chunk, response_queue_tts, audio_in_queue_player,
                   text_input_queue, ttsFrame>>

\* recv returns a message with audio: it is put on the playback queue
listen_recv_audio ==
    /\ Len(audio_in_queue_player) < MaxPlayback
    /\ \E i \in 1..Len(sockets) :
        /\ sockets[i].listen = "recv"
        /\ sockets[i].status = "open"
        /\ audio_in_queue_player' = Append(audio_in_queue_player, i)
        /\ sockets' = [sockets EXCEPT ![i].listen = WhileRunning("recv")]
    /\ UNCHANGED <<pc, text_chunk, response_queue_tts, text_input_queue, ttsFrame>>

\* listen_recv_final without the break
listen_recv_final_nobreak ==
    /\ \E i \in 1..Len(sockets) :
        /\ sockets[i].listen = "recv"
        /\ sockets[i].status = "open"
        /\ \E k \in 1..Len(sockets[i].texts) : sockets[i].texts[k] = ""
        /\ sockets' = [sockets EXCEPT ![i].listen = WhileRunning("recv"), ![i].final = TRUE]
    /\ UNCHANGED <<pc, text_chunk, response_queue_tts, audio_in_queue_player,
                   text_input_queue, ttsFrame>>

\* recv returns the isFinal message, which the service sends once it has
\* been sent the end-of-text marker: break
listen_recv_final ==
    /\ \E i \in 1..Len(sockets) :
        /\ sockets[i].listen = "recv"
        /\ sockets[i].status = "open"
        /\ \E k \in 1..Len(sockets[i].texts) : sockets[i].texts[k] = ""
        /\ sockets' = [sockets EXCEPT ![i].listen = "done", ![i].final = TRUE]
    /\ UNCHANGED <<pc, text_chunk, response_queue_tts, audio_in_queue_player,
                   text_input_queue, ttsFrame>>

\* recv raises ConnectionClosed on a socket that has been closed: break
listen_closed ==
    /\ \E i \in 1..Len(sockets) :
        /\ sockets[i].listen = "recv"
        /\ sockets[i].status # "open"
        /\ sockets' = [sockets EXCEPT ![i].listen = "done"]
    /\ UNCHANGED <<pc, text_chunk, response_queue_tts, audio_in_queue_player,
                   text_input_queue, ttsFrame>>

\* recv returns a message that json.loads or b64decode rejects, or recv
\* raises something other than ConnectionClosed: the listen task ends with
\* the exception
listen_raise ==
    /\ Cardinality(Failed) < MaxErrors
    /\ \A j \in 1..Len(sockets) : sockets[j].listen # "raised"
    /\ \E i \in 1..Len(sockets) :
        /\ sockets[i].listen = "recv"
        /\ sockets[i].status = "open"
        /\ sockets' = [sockets EXCEPT ![i].listen = "raised"]
    /\ UNCHANGED <<pc, text_chunk, response_queue_tts, audio_in_queue_player,
                   text_input_queue, ttsFrame>>

\* the GUI thread hands a user text to the loop, which puts it on the queue
handle_user_text ==
    /\ is_running /\ LoopIsRunning
    /\ submitted < MaxTexts
    /\ submitted' = submitted + 1
    /\ text_input_queue' = Append(text_input_queue, "hi")
    /\ UNCHANGED <<pc, text_chunk, sockets, response_queue_tts, audio_in_queue_player,
                   fsVars, outVars, turnRest, lifeRest>>

\* process_text_get without the emptying of the two queues
process_text_get_noclear ==
    /\ At("process_text_input_queue", "get")
    /\ text_input_queue # <<>>
    /\ text_input_queue' = Tail(text_input_queue)
    /\ pc' = [pc EXCEPT !["process_text_input_queue"] =
                 IF Head(text_input_queue) = "None" THEN "done" ELSE "send_client_content"]
    /\ UNCHANGED <<response_queue_tts, audio_in_queue_player>>
    /\ UNCHANGED <<text_chunk, sockets, ttsFrame>>

\* text_input_queue.get() returns: None ends the task; a text empties the
\* tts queue and the playback queue, then send_client_content is awaited
process_text_get ==
    /\ At("process_text_input_queue", "get")
    /\ text_input_queue # <<>>
    /\ text_input_queue' = Tail(text_input_queue)
    /\ IF Head(text_input_queue) = "None"
       THEN /\ pc' = [pc EXCEPT !["process_text_input_queue"] = "done"]
            /\ UNCHANGED <<response_queue_tts, audio_in_queue_player>>
       ELSE /\ pc' = [pc EXCEPT !["process_text_input_queue"] = "send_client_content"]
            /\ response_queue_tts' = <<>>
            /\ audio_in_queue_player' = <<>>
    /\ UNCHANGED <<text_chunk, sockets, ttsFrame>>

process_text_sent ==
    /\ At("process_text_input_queue", "send_client_content")
    /\ pc' = [pc EXCEPT !["process_text_input_queue"] = WhileRunning("get")]
    /\ UNCHANGED <<text_chunk, sockets, response_queue_tts, audio_in_queue_player,
                   text_input_queue, ttsFrame>>

\* send_client_content raises: nothing catches it, the task ends
process_text_raise ==
    /\ At("process_text_input_queue", "send_client_content")
    /\ pc' = [pc EXCEPT !["process_text_input_queue"] = "failed"]
    /\ UNCHANGED <<text_chunk, sockets, response_queue_tts, audio_in_queue_player,
                   text_input_queue, ttsFrame>>

(***************************************************************************)
(* stop() and shutdown_async_tasks.                                        *)
(***************************************************************************)
\* stop(), lines 457-459: with is_running and a running loop the flag is
\* cleared and shutdown_async_tasks is handed to the loop; else stop goes
\* straight to the device handle
stop_enter ==
    /\ stopPc = "idle"
    /\ IF is_running /\ LoopIsRunning
       THEN /\ is_running' = FALSE
            /\ shutdownPc' = "scheduled"
            /\ stopPc' = "wait"
       ELSE /\ stopPc' = "close"
            /\ UNCHANGED <<is_running, shutdownPc>>
    /\ UNCHANGED <<pc, loop_state, timeouts, audio_stream, video_mode, text_input_queue>>
    /\ UNCHANGED <<outVars, fsVars, turnVars, ttsVars>>

\* shutdown_async_tasks up to its sleep: the sentinel is put on the
\* (unbounded) text_input_queue and every task of self.tasks is cancelled.
\* A cancelled task runs once more, only to have CancelledError thrown in
\* at its await; no task catches it (`except Exception` does not), so each
\* task that had not ended ends here, and the frame of a suspended put goes
\* with its producer.
shutdown_async_tasks ==
    /\ shutdownPc = "scheduled"
    /\ LoopIsRunning
    /\ text_input_queue' = Append(text_input_queue, "None")
    /\ pc' = [t \in Tasks |-> IF pc[t] \in Ended THEN pc[t] ELSE "cancelled"]
    /\ pending' = [t \in Producers |-> NoFrame]
    /\ shutdownPc' = "sleep"
    /\ tool_response' = NoResponse
    /\ sockets' = IF pc["tts"] \in InSocket THEN CloseSocket("cancelled") ELSE sockets
    /\ UNCHANGED <<text_chunk, audio_in_queue_player, submitted>>
    /\ UNCHANGED <<is_running, loop_state, stopPc, timeouts, audio_stream, video_mode>>
    /\ UNCHANGED <<out_queue_gemini, sending, latest_frame, produced, sent, dropped>>
    /\ UNCHANGED <<turn_urls, turn_code_content, turn_code_result, response_queue_tts,
                   emitted, turnNo, nChunks, seen, lastTurn>>
    /\ UNCHANGED fsVars

\* asyncio.sleep(0.1) is over and the coroutine returns
shutdown_async_done ==
    /\ shutdownPc = "sleep"
    /\ LoopIsRunning
    /\ shutdownPc' = "done"
    /\ UNCHANGED <<is_running, pc, loop_state, stopPc, timeouts,
                   audio_stream, video_mode, text_input_queue>>
    /\ UNCHANGED <<outVars, fsVars, turnVars, ttsVars>>

\* future.result(timeout=5) returns with the result of the coroutine
stop_acknowledged ==
    /\ stopPc = "wait"
    /\ shutdownPc = "done"
    /\ stopPc' = "close"
    /\ UNCHANGED <<is_running, pc, loop_state, shutdownPc, timeouts,
                   audio_stream, video_mode, text_input_queue>>
    /\ UNCHANGED <<outVars, fsVars, turnVars, ttsVars>>

\* future.result(timeout=5) times out: the loop did not finish the
\* coroutine in five seconds
stop_timeout ==
    /\ stopPc = "wait"
    /\ shutdownPc # "done"
    /\ stopPc' = "close"
    /\ timeouts' = timeouts + 1
    /\ UNCHANGED <<is_running, pc, loop_state, shutdownPc,
                   audio_stream, video_mode, text_input_queue>>
    /\ UNCHANGED <<outVars, fsVars, turnVars, ttsVars>>

\* stop(), lines 465-467: an active audio stream is stopped and closed
stop_close ==
    /\ stopPc = "close"
    /\ audio_stream' = IF audio_stream = "active" THEN "closed" ELSE audio_stream
    /\ stopPc' = "returned"
    /\ UNCHANGED <<is_running, pc, loop_state, shutdownPc, timeouts,
                   video_mode, text_input_queue>>
    /\ UNCHANGED <<outVars, fsVars, turnVars, ttsVars>>

(***************************************************************************)
(* start_event_loop, run and main_task_runner.                             *)
(***************************************************************************)
CameraTasks == {"stream_camera_to_gui", "send_frames_to_gemini"}

\* the choices of --mode
VideoModes == {"camera", "screen", "none"}

lifeFrame == <<outVars, fsVars, turnVars, ttsVars>>

\* the backend thread enters run_until_complete(self.run()); run awaits
\* client.aio.live.connect
start_event_loop ==
    /\ loop_state = "new"
    /\ loop_state' = "connecting"
    /\ UNCHANGED <<is_running, pc, stopPc, shutdownPc, timeouts, audio_stream, video_mode,
                   text_input_queue, lifeFrame>>

\* main_task_runner creating the camera tasks in every video mode
main_task_runner_any_mode ==
    /\ loop_state = "connecting"
    /\ loop_state' = "running"
    /\ pc' = [t \in Tasks |-> "spawned"]
    /\ UNCHANGED <<is_running, stopPc, shutdownPc, timeouts, audio_stream, video_mode,
                   text_input_queue, lifeFrame>>

\* the session is connected: main_task_runner creates the tasks of the
\* video mode and awaits gather
main_task_runner ==
    /\ loop_state = "connecting"
    /\ loop_state' = "running"
    /\ pc' = [t \in Tasks |-> IF t \in CameraTasks /\ video_mode # "camera"
                               THEN pc[t] ELSE "spawned"]
    /\ UNCHANGED <<is_running, stopPc, shutdownPc, timeouts, audio_stream, video_mode,
                   text_input_queue, lifeFrame>>

\* `finally` of run without the call of stop()
RunFinallyNoStop == UNCHANGED <<is_running, timeouts, audio_stream>>

\* `finally` of run: with is_running still set, stop() is called on the
\* loop's own thread; it clears the flag, waits the five seconds out (the
\* loop it waits for is the one it blocks) and closes the audio stream
RunFinally ==
    IF is_running
    THEN /\ is_running' = FALSE
         /\ timeouts' = timeouts + 1
         /\ audio_stream' = IF audio_stream = "active" THEN "closed" ELSE audio_stream
    ELSE UNCHANGED <<is_running, timeouts, audio_stream>>

\* connecting the session raises: `except Exception`, `finally`, and
\* run_until_complete returns
run_connect_raise ==
    /\ loop_state = "connecting"
    /\ RunFinally
    /\ loop_state' = "finished"
    /\ UNCHANGED <<pc, stopPc, shutdownPc, video_mode, text_input_queue, lifeFrame>>

\* gather returns when every task it was given has ended
run_gather_done ==
    /\ loop_state = "running"
    /\ \A t \in Tasks : pc[t] \in Ended
    /\ RunFinally
    /\ loop_state' = "finished"
    /\ UNCHANGED <<pc, stopPc, shutdownPc, video_mode, text_input_queue, lifeFrame>>

(***************************************************************************)
(* stop() statement by statement.  closeEvent calls stop() on the GUI      *)
(* thread, the `finally` of run calls it on the thread of the loop; the    *)
(* two threads share is_running without a lock, so the test of line 457    *)
(* and the assignment of line 458 are separate steps.  While run is in     *)
(* its `finally` the loop's thread is busy: loop_state is "finally",       *)
(* "stop_guard", "stop_set" or "stop_wait" and no callback of the loop     *)
(* runs, though self.loop.is_running() is still true.                      *)
(***************************************************************************)
InRunUntilComplete ==
    loop_state \in {"connecting", "running", "finally", "stop_guard", "stop_set",
                    "stop_wait"}

stopFrame == <<pc, video_mode, text_input_queue, outVars, fsVars, turnVars, ttsVars>>

\* stop() on the GUI thread, line 457
stop_guard ==
    /\ stopPc = "idle"
    /\ stopPc' = IF is_running /\ InRunUntilComplete THEN "set" ELSE "close"
    /\ UNCHANGED <<is_running, loop_state, shutdownPc, timeouts, audio_stream, stopFrame>>

\* stop() on the GUI thread, lines 458-459: the flag is cleared and
\* shutdown_async_tasks is handed to the loop
stop_clear_flag ==
    /\ stopPc = "set"
    /\ is_running' = FALSE
    /\ shutdownPc' = "scheduled"
    /\ stopPc' = "wait"
    /\ UNCHANGED <<loop_state, timeouts, audio_stream, stopFrame>>

\* connecting the session raises: `except Exception`, then `finally`
run_connect_raised ==
    /\ loop_state = "connecting"
    /\ loop_state' = "finally"
    /\ UNCHANGED <<is_running, stopPc, shutdownPc, timeouts, audio_stream, stopFrame>>

\* gather returns when every task it was given has ended; then `finally`
run_gathered ==
    /\ loop_state = "running"
    /\ \A t \in Tasks : pc[t] \in Ended
    /\ loop_state' = "finally"
    /\ UNCHANGED <<is_running, stopPc, shutdownPc, timeouts, audio_stream, stopFrame>>

\* `if self.is_running:` of line 435; without the flag run returns and
\* run_until_complete with it
run_finally ==
    /\ loop_state = "finally"
    /\ loop_state' = IF is_running THEN "stop_guard" ELSE "finished"
    /\ UNCHANGED <<is_running, stopPc, shutdownPc, timeouts, audio_stream, stopFrame>>

\* stop() on the thread of the loop, line 457: the loop is running; with
\* the flag cleared in the meantime stop only closes the audio stream
run_stop_guard ==
    /\ loop_state = "stop_guard"
    /\ IF is_running
       THEN /\ loop_state' = "stop_set"
            /\ UNCHANGED audio_stream
       ELSE /\ loop_state' = "finished"
            /\ audio_stream' = IF audio_stream = "active" THEN "closed" ELSE audio_stream
    /\ UNCHANGED <<is_running, stopPc, shutdownPc, timeouts, stopFrame>>

\* stop() on the thread of the loop, lines 458-459
run_stop_clear_flag ==
    /\ loop_state = "stop_set"
    /\ is_running' = FALSE
    /\ shutdownPc' = "scheduled"
    /\ loop_state' = "stop_wait"
    /\ UNCHANGED <<stopPc, timeouts, audio_stream, stopFrame>>

\* stop() on the thread of the loop, lines 460-467: the loop it waits for
\* is the one it blocks, so future.result times out; the audio stream is
\* closed, run returns and run_until_complete with it
run_stop_timeout ==
    /\ loop_state = "stop_wait"
    /\ timeouts' = timeouts + 1
    /\ audio_stream' = IF audio_stream = "active" THEN "closed" ELSE audio_stream
    /\ loop_state' = "finished"
    /\ UNCHANGED <<is_running, stopPc, shutdownPc, stopFrame>>

\* a task runs for the first time, up to its first await
task_start ==
    /\ LoopIsRunning
    /\ \E t \in Tasks :
        /\ pc[t] = "spawned"
        /\ pc' = [pc EXCEPT ![t] =
                     CASE t \in {"stream_camera_to_gui", "play_audio"} -> "open"
                       [] t = "send_frames_to_gemini" -> WhileRunning("sleep")
                       [] t = "listen_audio" -> WhileRunning("read")
                       [] t = "receive_text" -> WhileRunning("receive")
                       [] OTHER -> WhileRunning("get")]
        /\ audio_stream' = IF t = "listen_audio" THEN "active" ELSE audio_stream
    /\ UNCHANGED <<is_running, loop_state, stopPc, shutdownPc, timeouts,
                   video_mode, text_input_queue, lifeFrame>>

\* to_thread(cv2.VideoCapture, 0) / to_thread(pya.open, ...) returns
device_opened ==
    /\ LoopIsRunning
    /\ \E t \in {"stream_camera_to_gui", "play_audio"} :
        /\ pc[t] = "open"
        /\ pc' = [pc EXCEPT ![t] =
                     WhileRunning(IF t = "play_audio" THEN "get" ELSE "read")]
    /\ UNCHANGED <<is_running, loop_state, stopPc, shutdownPc, timeouts, audio_stream, video_mode,
                   text_input_queue, lifeFrame>>

(***************************************************************************)
(* Claims about the outbound queue (SpecOut).                              *)
(***************************************************************************)
\* C1: no frame put on the outbound queue is lost: every frame the
\* producers have put on the queue either is still in the queue or has been
\* passed to session.send, each once and in the order of the puts, so that
\* the frames sent are the frames produced once the queue is drained.
C1_NoFrameLost ==
    produced = sent \o out_queue_gemini

\* what the code keeps of C1: a frame leaves the queue only towards
\* session.send or, once is_running is false, into the void
C1_FramesAccounted ==
    /\ produced = sent \o dropped \o out_queue_gemini
    /\ is_running => dropped = <<>>

\* C9: the outbound queue never holds more than 20 items. A producer whose
\* put finds the queue full suspends holding its frame and leaves the queue
\* as it is; it leaves the suspended put only by appending that frame to a
\* queue that has room again (or by being cancelled at shutdown), and the
\* queue shrinks only by send_realtime taking its head.
C9_Step ==
    /\ \A t \in Producers :
        /\ (pc[t] # "put" /\ pc'[t] = "put")
               => /\ Full(out_queue_gemini)
                  /\ out_queue_gemini' = out_queue_gemini
                  /\ pending'[t] # NoFrame
        /\ (pc[t] = "put" /\ pc'[t] = "put") => pending'[t] = pending[t]
        /\ (pc[t] = "put" /\ pc'[t] # "put")
               => \/ /\ ~Full(out_queue_gemini)
                     /\ out_queue_gemini' = Append(out_queue_gemini, pending[t])
                  \/ pc'[t] = "cancelled"
    /\ Len(out_queue_gemini') > Len(out_queue_gemini) => ~Full(out_queue_gemini)
    /\ Len(out_queue_gemini') < Len(out_queue_gemini)
           => /\ out_queue_gemini' = Tail(out_queue_gemini)
              /\ pc["send_realtime"] \in {"get", "send"}

C9_Backpressure ==
    /\ [](Len(out_queue_gemini) <= OutQueueMaxsize)
    /\ [][C9_Step]_vars

C9_Witness ==
    /\ Len(out_queue_gemini) = OutQueueMaxsize
    /\ pc["listen_audio"] = "put"
    /\ pending["listen_audio"] # NoFrame
    /\ is_running

C15_Step ==
    (/\ pc["send_realtime"] = "send"
     /\ is_running
     /\ pc'["send_realtime"] # "cancelled")
        => pc'["send_realtime"] \in {"get", "send"}

\* C15: while is_running, whatever session.send does with a frame (return
\* or raise), send_realtime stays in its loop: it takes the next frame or
\* waits for one, and only a cancellation ends it.
C15_SendLoopContinues == [][C15_Step]_vars

IsPrefix(s, t) == Len(s) <= Len(t) /\ \A i \in 1..Len(s) : s[i] = t[i]

\* C22: the frames passed to session.send are, in order, the first frames
\* put on out_queue_gemini: none is sent twice, none overtakes another,
\* and a frame is sent only after every frame put before it.
C22_SentIsPrefix ==
    /\ IsPrefix(sent, produced)
    /\ sending # NoFrame => (sent # <<>> /\ sending = sent[Len(sent)])

\* an image frame has been sent between two audio frames
C22_Witness ==
    \E i \in 2..(Len(sent) - 1) :
        /\ sent[i].mime = "image/jpeg"
        /\ sent[i - 1].mime = "audio/pcm"
        /\ sent[i + 1].mime = "audio/pcm"

C21_Step ==
    /\ ~is_running => Len(out_queue_gemini') >= Len(out_queue_gemini)
    /\ dropped' = dropped

\* C21: once is_running is false send_realtime takes no further frame
\* from out_queue_gemini, and a frame it has taken from the queue is never
\* discarded: it is passed to session.send.
C21_ConsumersRespectFlag == [][C21_Step]_vars

(***************************************************************************)
(* Initial states of the parts.                                            *)
(***************************************************************************)
\* the tasks spawned in camera mode, each at the first await of its loop
OutTasksInit ==
    [t \in Tasks |->
        CASE t = "stream_camera_to_gui" -> "read"
          [] t = "send_frames_to_gemini" -> "sleep"
          [] t = "listen_audio" -> "read"
          [] t = "send_realtime" -> "get"
          [] OTHER -> "unspawned"]

LifeInitRunning(pc0) ==
    /\ is_running = TRUE
    /\ pc = pc0
    /\ loop_state = "running"
    /\ stopPc = "idle"
    /\ shutdownPc = "none"
    /\ timeouts = 0
    /\ audio_stream = "active"
    /\ video_mode = (IF pc0["stream_camera_to_gui"] = "unspawned" THEN "none" ELSE "camera")
    /\ text_input_queue = <<>>

OutInit ==
    /\ out_queue_gemini = <<>>
    /\ pending = [t \in Producers |-> NoFrame]
    /\ sending = NoFrame
    /\ latest_frame = "None"
    /\ produced = <<>>
    /\ sent = <<>>
    /\ dropped = <<>>

(***************************************************************************)
(* Claims about the inbound turns (SpecTurn).                              *)
(***************************************************************************)
Last(seq) == seq[Len(seq)]

IsSummarySignal(e) == e.signal \in {"code_being_executed", "search_results_received"}

RECURSIVE SummaryOf(_)
SummaryOf(out) ==
    IF out = <<>> THEN <<>>
    ELSE (IF IsSummarySignal(Head(out)) THEN <<Head(out)>> ELSE <<>>)
         \o SummaryOf(Tail(out))

CodeSignal(summary) ==
    CHOOSE e \in {summary[i] : i \in 1..Len(summary)} : e.signal = "code_being_executed"
SearchSignal(summary) ==
    CHOOSE e \in {summary[i] : i \in 1..Len(summary)} : e.signal = "search_results_received"

C10_Step ==
    /\ (fs' # fs) =>
          /\ pc["receive_text"] = "receive"
          /\ pc'["receive_text"] = "send_tool_response"
    /\ (pc["receive_text"] = "receive" /\ nChunks' = nChunks + 1 /\ fs' # fs) =>
          /\ tool_response'.inflight
          /\ tool_response'.function_responses # <<>>
    /\ tool_response.inflight =>
          /\ response_queue_tts' = response_queue_tts
          /\ lastTurn' = lastTurn
          /\ fs' = fs
          /\ turnNo' = turnNo =>
                /\ nChunks' = nChunks
                /\ emitted' = emitted
                /\ [seen' EXCEPT !.calls = <<>>] = [seen EXCEPT !.calls = <<>>]

\* C10: the tools of a chunk run in the step that processes the chunk, and
\* from then until send_tool_response has returned receive_text processes
\* no further chunk of the turn and emits neither summary nor sentinel.
C10_ToolResponseFirst ==
    /\ [](tool_response.inflight => pc["receive_text"] = "send_tool_response")
    /\ [][C10_Step]_vars

\* a turn in which a tool ran and a later chunk carried text has ended
C10_Witness ==
    /\ lastTurn.turnNo = 1
    /\ fs[<<"d">>] = Dir
    /\ \E i \in 1..Len(lastTurn.emitted) : lastTurn.emitted[i].signal = "text_received"
    /\ response_queue_tts # <<>> /\ Last(response_queue_tts) = "None"
    /\ ~tool_response.inflight

\* an item was put at the end of response_queue_tts in this step
TtsPut == response_queue_tts' = Append(response_queue_tts, Last(response_queue_tts'))

InTurn(p) == p["receive_text"] \in {"receive", "send_tool_response"}

C11_Step ==
    /\ turnNo' >= turnNo
    /\ (response_queue_tts' # response_queue_tts) => Len(response_queue_tts') > 0 /\ TtsPut
    /\ (response_queue_tts' # response_queue_tts /\ Last(response_queue_tts') # "None")
          => /\ turnNo' = turnNo
             /\ pc["receive_text"] = "receive"
    /\ (response_queue_tts' # response_queue_tts /\ Last(response_queue_tts') = "None")
          => /\ pc["receive_text"] = "receive"
             /\ turnNo' > turnNo \/ ~InTurn(pc')

\* C11: receive_text puts a text delta on the tts queue only while it drains
\* the turn the delta belongs to, and the step that puts the sentinel of
\* turn k ends turn k (the next receive() is turn k+1, or the task has left
\* the loop): no delta of turn k is put after the sentinel of turn k.
C11_SentinelAfterDeltas == [][C11_Step]_vars

\* a delta, the sentinel of its turn, then a delta of the next turn
C11_Witness ==
    /\ Len(response_queue_tts) >= 3
    /\ response_queue_tts[1] # "None"
    /\ response_queue_tts[2] = "None"
    /\ response_queue_tts[3] # "None"
    /\ turnNo = 2

\* receive_text left the turn it was in, and not by being cancelled
LeftTurn ==
    /\ InTurn(pc)
    /\ pc'["receive_text"] # "cancelled"
    /\ turnNo' # turnNo \/ ~InTurn(pc')

C14_Step ==
    /\ (LeftTurn /\ is_running)
          => IF turnNo < MaxTurns
             THEN /\ turnNo' = turnNo + 1
                  /\ pc'["receive_text"] = "receive"
                  /\ nChunks' = 0 /\ emitted' = <<>> /\ ~tool_response'.inflight
             ELSE pc'["receive_text"] = "idle"
    /\ (LeftTurn /\ ~is_running)
          => /\ pc'["receive_text"] = "done"
             /\ turnNo' = turnNo

\* C14: receive_text never ends with an exception.  Whenever it leaves a
\* turn, by the end of the turn or by an exception of session.receive, of
\* the chunk processing or of send_tool_response, then while is_running it
\* calls session.receive() for the next turn (up to MaxTurns turns), and
\* with is_running false the loop exits and the task is done.
C14_ReceiveRestarts ==
    /\ [](pc["receive_text"] # "failed")
    /\ [](pc["receive_text"] = "done" => ~is_running)
    /\ [][C14_Step]_vars

\* the second session.receive() was made though the first turn never
\* completed: no sentinel was put and no turn was recorded
C14_Witness ==
    /\ turnNo = 2
    /\ pc["receive_text"] = "receive"
    /\ is_running
    /\ lastTurn = NoTurn
    /\ nChunks = 0
    /\ \A i \in 1..Len(response_queue_tts) : response_queue_tts[i] # "None"

\* receive_text processed a chunk that carries a text delta
DeltaArrived ==
    /\ pc["receive_text"] = "receive"
    /\ nChunks' = nChunks + 1
    /\ seen'.text # ""

C24_Step ==
    DeltaArrived
        => /\ emitted' = Append(emitted, TextReceived(seen'.text))
           /\ response_queue_tts' = Append(response_queue_tts, seen'.text)

\* C24: the step of receive_text that processes a chunk with a text delta
\* emits text_received with the delta and puts the delta at the end of
\* response_queue_tts, once, whatever else the chunk carries.
C24_EveryDeltaForwarded == [][C24_Step]_vars

\* the same for the chunks that carry no function call
C24_ContentDeltas == [][seen'.calls = <<>> => C24_Step]_vars

\* the turn receive_text leaves in this step ends with one summary, then
\* end_of_turn, then the sentinel put on response_queue_tts
TurnClosed ==
    /\ lastTurn'.turnNo = turnNo
    /\ Len(SummaryOf(lastTurn'.emitted)) = 2
    /\ Last(lastTurn'.emitted) = EndOfTurn
    /\ Cardinality({i \in 1..Len(lastTurn'.emitted) : lastTurn'.emitted[i] = EndOfTurn}) = 1
    /\ response_queue_tts' = Append(response_queue_tts, "None")

\* C25: whenever receive_text leaves a turn it started (other than by being
\* cancelled), the turn has produced exactly one tool-activity summary,
\* then exactly one end_of_turn, then exactly one sentinel on
\* response_queue_tts.
C25_EveryTurnClosed == [][LeftTurn => TurnClosed]_vars

\* the same for the turns that end without an exception: a sentinel is put
\* only together with the summary and end_of_turn of the turn
C25_SentinelClosesTurn ==
    [][(response_queue_tts' # response_queue_tts /\ Len(response_queue_tts') > 0
        /\ Last(response_queue_tts') = "None") => (LeftTurn /\ TurnClosed)]_vars

DeclaredTools == {"create_folder", "create_file", "edit_file"}

\* the path argument of a call, and whether _create_* / _edit_file take it
PathOf(fc) == IF fc.name = "create_folder" THEN fc.args.folder_path ELSE fc.args.file_path
BadPath(x) == x.ty # "str" \/ x.v = <<>>

\* the responses being sent, the calls they answer, the tool statuses
Responses == tool_response.function_responses
AnsweredBy(r, calls) ==
    {j \in 1..Len(calls) : calls[j].id = r.id /\ calls[j].name = r.name}
ToolStatuses == {"success", "skipped", "error"}

C12_Responses ==
    tool_response.inflight =>
        /\ pc["receive_text"] = "send_tool_response"
        /\ \A j \in 1..Len(seen.calls) :
              seen.calls[j].name \in DeclaredTools
                 => \E k \in 1..Len(Responses) : j \in AnsweredBy(Responses[k], seen.calls)
        /\ \A k \in 1..Len(Responses) :
              /\ Responses[k].response.status \in ToolStatuses
              /\ \E j \in AnsweredBy(Responses[k], seen.calls) :
                    LET fc == seen.calls[j] IN
                    /\ BadPath(PathOf(fc)) => Responses[k].response.status = "error"
                    /\ (fc.name \in {"create_file", "edit_file"} /\ ~IsStr(fc.args.content))
                          => Responses[k].response.status \in {"skipped", "error"}

C12_Step ==
    /\ (pc["receive_text"] = "receive" /\ nChunks' = nChunks + 1 /\ seen'.calls # <<>>)
          => /\ tool_response'.inflight
             /\ pc'["receive_text"] = "send_tool_response"
             /\ LET fc == seen'.calls[1] IN
                (/\ fc.name = "create_file"
                 /\ ~BadPath(fc.args.file_path)
                 /\ fs[fc.args.file_path.v] = Absent
                 /\ ~ParentIsDir(fs, fc.args.file_path.v))
                   => /\ tool_response'.function_responses[1].response.status = "error"
                      /\ fs' = fs
    /\ (tool_response.inflight /\ ~tool_response'.inflight /\ turnNo' = turnNo
        /\ pc'["receive_text"] = "receive")
          => nChunks' = nChunks /\ emitted' = emitted /\ fs' = fs

\* C12: every call of a declared tool, whatever its arguments, is answered
\* with a status dictionary (success, skipped or error): a missing, empty or
\* non-string path gives error, missing content never success, a file whose
\* folder does not exist gives error and no file; the responses are handed
\* to send_tool_response, and when it returns receive_text goes on with
\* the same turn.
C12_ToolErrorsReturned == [](C12_Responses) /\ [][C12_Step]_vars

\* create_file with a path but no content has been answered with error
C12_Witness ==
    /\ tool_response.inflight
    /\ seen.calls[1].name = "create_file"
    /\ seen.calls[1].args.file_path = PyStr(<<"d">>)
    /\ seen.calls[1].args.content = PyNone
    /\ Responses[1].response.status = "error"

\* C13: the function_responses sent for a chunk hold one response per
\* function call of the chunk, with its id and name, in the order of the calls.
C13_EveryCallAnswered ==
    tool_response.inflight =>
        /\ Len(Responses) = Len(seen.calls)
        /\ \A k \in 1..Len(Responses) :
              /\ Responses[k].id = seen.calls[k].id
              /\ Responses[k].name = seen.calls[k].name

\* the same for a chunk that calls declared tools only
C13_DeclaredAnswered ==
    (\A j \in 1..Len(seen.calls) : seen.calls[j].name \in DeclaredTools)
        => C13_EveryCallAnswered

(***************************************************************************)
(* Claims about the synthesis sockets (SpecTTS).                           *)
(***************************************************************************)
Markers(texts) == {k \in 1..Len(texts) : texts[k] = ""}
Sentinels(pulled) == {k \in 1..Len(pulled) : pulled[k] = "None"}

\* tts is still sending the marker of socket i
Finalizing(i) == i = Cur /\ pc["tts"] = "send_final"

\* C5: every synthesis socket is sent at most one finalize marker "", only
\* for a sentinel tts pulled while it held the socket, and after the send
\* of every chunk pulled for it (the marker is the last message); a socket
\* that did not fail and was not cancelled, and for which the sentinel was
\* pulled, has been sent exactly one marker once that send has returned.
C5_OneFinalizeMarker ==
    \A i \in 1..Len(sockets) :
        LET s == sockets[i] IN
        /\ Cardinality(Markers(s.texts)) <= 1
        /\ Markers(s.texts) \subseteq {Len(s.texts)}
        /\ Sentinels(s.pulled) \subseteq {Len(s.pulled)}
        /\ Markers(s.texts) # {} =>
              /\ Sentinels(s.pulled) # {}
              /\ Len(s.texts) = Len(s.pulled) + 1
        /\ (Sentinels(s.pulled) # {} /\ s.status \in {"open", "closed"} /\ ~Finalizing(i))
              => Cardinality(Markers(s.texts)) = 1

\* a socket that was sent two chunks and then the marker has been closed
C5_Witness ==
    \E i \in 1..Len(sockets) :
        /\ sockets[i].status = "closed"
        /\ Len(sockets[i].pulled) = 3
        /\ sockets[i].texts[4] = ""
        /\ is_running

\* the texts a socket is to be sent for the items pulled for it
Expected(pulled) ==
    [k \in 1..Len(pulled) |-> IF pulled[k] = "None" THEN "" ELSE pulled[k] \o " "]

\* C6: a socket for which tts pulled c1..cn (n >= 1) and then the sentinel,
\* without a socket error or cancellation, was sent after the
\* configuration message exactly c1+" ", ..., cn+" ", "" in that order;
\* until the sentinel is pulled it was sent the padded chunks so far.
C6_SocketTexts ==
    \A i \in 1..Len(sockets) :
        LET s == sockets[i] IN
        /\ (s.status \in {"open", "closed"} /\ Sentinels(s.pulled) # {} /\ ~Finalizing(i))
              => /\ Len(s.pulled) >= 2
                 /\ s.texts = <<" ">> \o Expected(s.pulled)
        /\ (s.status \in {"open", "closed"} /\ Len(s.texts) > 0)
              => /\ s.texts[1] = " "
                 /\ \A k \in 2..Len(s.texts) : s.texts[k] = Expected(s.pulled)[k - 1]

\* the chunks "Hello", " world" and the sentinel went to one socket
C6_HelloWorld ==
    \E i \in 1..Len(sockets) :
        /\ sockets[i].pulled = <<"Hello", " world", "None">>
        /\ sockets[i].texts = <<" ", "Hello ", " world ", "">>
        /\ sockets[i].status = "closed"

\* a socket failed in this step: the connect, a send or listen_task raised
SocketError == Cardinality(Failed') > Cardinality(Failed)

C16_Step ==
    /\ SocketError
          => /\ pc["tts"] \in InSocket \cup {"connect"}
             /\ pc'["tts"] = IF is_running THEN "get" ELSE "done"
             /\ response_queue_tts' = response_queue_tts
    /\ (pc["tts"] = "get" /\ pc'["tts"] \notin {"get", "done", "cancelled"})
          => /\ pc'["tts"] = "connect"
             /\ response_queue_tts # <<>>
             /\ text_chunk' = Head(response_queue_tts)
             /\ text_chunk' # "None"
    /\ (pc["tts"] = "connect" /\ pc'["tts"] \notin {"connect", "cancelled"})
          => /\ Len(sockets') = Len(sockets) + 1
             /\ sockets'[Len(sockets')].pulled = <<text_chunk>>
             /\ sockets'[Len(sockets')].texts = <<>>
    /\ (pc["tts"] = "get" /\ is_running /\ response_queue_tts # <<>>
        /\ Head(response_queue_tts) # "None" /\ text_chunk' # text_chunk)
          => pc'["tts"] = "connect"

\* C16: tts never ends with an exception.  When the connect, a send on the
\* socket or the awaited listen_task raises, tts goes back to the get on
\* response_queue_tts (or ends normally when is_running is false) without
\* touching the queue; and a text chunk pulled by that get takes tts to a
\* connect, which opens a socket of its own for the chunk.
C16_SocketErrorCaught ==
    /\ [](pc["tts"] # "failed")
    /\ [][C16_Step]_vars

\* listen_task raised, tts caught it at `await listen_task`, and the next
\* chunk has been sent on a new socket
C16_Witness ==
    \E i \in 1..Len(sockets) :
        /\ sockets[i].status = "error"
        /\ sockets[i].listen = "raised"
        /\ i < Len(sockets)
        /\ sockets[i + 1].status = "open"
        /\ Len(sockets[i + 1].texts) >= 2

\* the same after a failed connect and after a failed send
C16_AfterRefused ==
    \E i \in 1..Len(sockets) :
        /\ sockets[i].status = "refused"
        /\ i < Len(sockets)
        /\ Len(sockets[i + 1].texts) >= 2

C16_AfterSend ==
    \E i \in 1..Len(sockets) :
        /\ sockets[i].status = "error"
        /\ sockets[i].listen # "raised"
        /\ i < Len(sockets)
        /\ Len(sockets[i + 1].texts) >= 2

\* C17: a synthesis socket carries the text deltas of one turn only: the
\* first delta of a turn (TextOf(1)) is never pulled for a socket that was
\* opened for an earlier delta.
C17_OneTurnPerSocket ==
    \A i \in 1..Len(sockets) :
        \A k \in 2..Len(sockets[i].pulled) : sockets[i].pulled[k] # TextOf(1)

\* the listen task of socket i put an audio chunk on the playback queue
AudioPut(i) == audio_in_queue_player' = Append(audio_in_queue_player, i)

C27_Step ==
    \A i \in 1..Len(sockets) :
        /\ AudioPut(i) => /\ sockets[i].listen = "recv"
                          /\ ~sockets[i].final
        /\ sockets[i].final => /\ sockets'[i].final
                               /\ sockets'[i].listen = "done"

\* C27: the listen task of a socket that has received the isFinal frame
\* has ended and stays ended, and every audio chunk of the socket was put
\* on audio_in_queue_player before that frame was received.
C27_FinalEndsListen ==
    /\ [](\A i \in 1..Len(sockets) : sockets[i].final => sockets[i].listen = "done")
    /\ [][C27_Step]_vars

\* the audio of a socket is on the playback queue and its listen task has
\* ended on isFinal
C27_Witness ==
    \E i \in 1..Len(sockets) :
        /\ sockets[i].final
        /\ sockets[i].listen = "done"
        /\ \E k \in 1..Len(audio_in_queue_player) : audio_in_queue_player[k] = i

\* C30: at most one synthesis socket is open and at most one listen task is
\* alive at any time, socket errors included: the listen task of a socket has
\* ended when the next socket is opened, and audio is only ever put by the
\* listen task of the newest socket, so the audio of a socket is on the
\* playback queue before any audio of a later one.
Alive == {i \in 1..Len(sockets) : sockets[i].listen \in {"start", "recv"}}

C30_State ==
    /\ Cardinality({i \in 1..Len(sockets) : sockets[i].status = "open"}) <= 1
    /\ Cardinality(Alive) <= 1
    /\ \A i \in 1..Len(sockets) :
           i < Len(sockets) => /\ sockets[i].status # "open"
                               /\ i \notin Alive

C30_Step == \A i \in 1..Len(sockets) : AudioPut(i) => i = Len(sockets)

TextTaken ==
    /\ pc["process_text_input_queue"] = "get"
    /\ text_input_queue # <<>>
    /\ Head(text_input_queue) # "None"
    /\ text_input_queue' = Tail(text_input_queue)

\* process_text_input_queue calls send_client_content in this step
SendInvoked ==
    /\ pc["process_text_input_queue"] # "send_client_content"
    /\ pc'["process_text_input_queue"] = "send_client_content"

C28_Step ==
    SendInvoked => /\ TextTaken
                   /\ response_queue_tts' = <<>>
                   /\ audio_in_queue_player' = <<>>

\* C28: the step in which process_text_input_queue takes a user text is
\* the step in which it calls send_client_content, and in that step both
\* response_queue_tts and audio_in_queue_player have been emptied: no
\* other task runs between the emptying and the call.
C28_QueuesEmptyAtSend == [][C28_Step]_vars

\* send_client_content is in flight and the sentinel of the first turn is
\* gone from response_queue_tts without tts having pulled it
C28_Witness ==
    /\ pc["process_text_input_queue"] = "send_client_content"
    /\ response_queue_tts = <<>>
    /\ audio_in_queue_player = <<>>
    /\ turnNo = 2 /\ nChunks = 0
    /\ text_chunk \notin {"None", ""}
    /\ \A i \in 1..Len(sockets) : Sentinels(sockets[i].pulled) = {}

(***************************************************************************)
(* Claims about stop() and about the session (SpecLife, SpecSession).      *)
(***************************************************************************)
\* the task has ended or was never created, or it has yet to reach its
\* `while self.is_running` and will find the flag cleared there
Quiet(t) ==
    \/ pc[t] \in Ended
    \/ ~is_running /\ pc[t] \in {"spawned", "open"}

\* C7: once stop() has returned, every task has ended or can no longer
\* reach a queue get.
C7_NoTaskAfterStop ==
    stopPc = "returned" => \A t \in Tasks : Quiet(t)

\* the same for a stop() that cleared the flag and got its acknowledgment
C7_AcknowledgedStop ==
    (stopPc = "returned" /\ ~is_running /\ timeouts = 0) => \A t \in Tasks : Quiet(t)

\* the tasks suspended in a send on the session
Sending ==
    {t \in Tasks : \/ t = "send_realtime" /\ pc[t] = "send"
                   \/ t = "process_text_input_queue" /\ pc[t] = "send_client_content"
                   \/ t = "receive_text" /\ pc[t] = "send_tool_response"}

\* C8: at most one task is suspended in a send on the session (session.send,
\* send_client_content, send_tool_response) at a time.
C8_OneSendInFlight == Cardinality(Sending) <= 1

TurnTasksInit ==
    [t \in Tasks |-> IF t = "receive_text" THEN "receive" ELSE "unspawned"]

\* receive_text has made its first session.receive() call
TurnIdle ==
    /\ turn_urls = {}
    /\ turn_code_content = <<>>
    /\ turn_code_result = ""
    /\ tool_response = NoResponse
    /\ emitted = <<>>
    /\ turnNo = 1
    /\ nChunks = 0
    /\ seen = NothingSeen
    /\ lastTurn = NoTurn

TurnInit == TurnIdle /\ response_queue_tts = <<>>

TtsIdle ==
    /\ text_chunk = ""
    /\ sockets = <<>>
    /\ audio_in_queue_player = <<>>
    /\ submitted = 0

TtsTasksInit ==
    [t \in Tasks |-> CASE t \in {"tts", "process_text_input_queue"} -> "get"
                       [] t = "receive_text" -> "receive"
                       [] OTHER -> "unspawned"]

NoTaskSpawned == \A t \in Tasks : pc[t] = "unspawned"

C18_Step ==
    /\ (loop_state = "connecting" /\ loop_state' = "finished")
          => /\ NoTaskSpawned /\ pc' = pc
             /\ ~is_running'
    /\ loop_state = "finished" => (loop_state' = "finished" /\ pc' = pc /\ ~is_running')

\* C18: when connecting the session raises, run() ends there: no task has
\* been created and none is created afterwards, and is_running is false
\* from the moment run() has finished.
C18_ConnectFailureFatal ==
    /\ [](loop_state = "finished" => ~is_running)
    /\ [](loop_state \in {"new", "connecting"} => NoTaskSpawned)
    /\ [][C18_Step]_vars

\* the connect failed with is_running set: run() has finished, its stop()
\* cleared the flag and waited its timeout out, no task exists
C18_Witness ==
    /\ loop_state = "finished"
    /\ NoTaskSpawned
    /\ ~is_running
    /\ timeouts = 1
    /\ shutdownPc = "none"

\* C19: when stop() is done waiting and goes on to close the audio stream,
\* it has cleared is_running, and the sentinel has been put on
\* text_input_queue and every task cancelled.
C19_StopOrder ==
    stopPc \in {"close", "returned"}
        => /\ ~is_running
           /\ shutdownPc \in {"sleep", "done"}
           /\ text_input_queue # <<>> /\ Last(text_input_queue) = "None"

\* the same for a stop() that cleared the flag and got its acknowledgment;
\* a stop() times out at most once and leaves no stream it found active
C19_AcknowledgedOrder ==
    /\ (stopPc \in {"close", "returned"} /\ shutdownPc = "done")
          => /\ ~is_running
             /\ \E k \in 1..Len(text_input_queue) : text_input_queue[k] = "None"
    /\ timeouts <= 2
    /\ (stopPc = "wait" => ~is_running /\ shutdownPc # "none")

\* the tasks main_task_runner creates in the configured video mode
TaskSet == IF video_mode = "camera" THEN Tasks ELSE Tasks \ CameraTasks

C20_Step ==
    /\ (loop_state = "connecting" /\ loop_state' = "running")
          => \A t \in Tasks : pc'[t] = IF t \in TaskSet THEN "spawned" ELSE "unspawned"
    /\ (loop_state = "running" /\ loop_state' = "finished")
          => \A t \in TaskSet : pc[t] \in {"done", "failed", "cancelled"}

C20_NoCamera ==
    video_mode # "camera"
        => /\ \A t \in CameraTasks : pc[t] = "unspawned"
           /\ latest_frame = "None"
           /\ pending["send_frames_to_gemini"] = NoFrame
           /\ Count(produced, "image/jpeg") = 0
           /\ Count(out_queue_gemini, "image/jpeg") = 0
           /\ Count(sent, "image/jpeg") = 0

\* C20: main_task_runner creates the six tasks of every mode and, in camera
\* mode only, stream_camera_to_gui and send_frames_to_gemini; in the other
\* modes these two never run, no frame is stored and no image frame is put
\* on out_queue_gemini; and gather returns only when every task created
\* has ended (returned, raised or been cancelled).
C20_TaskSetOfMode ==
    /\ [](C20_NoCamera)
    /\ [](loop_state # "running" \/ \A t \in TaskSet : pc[t] # "unspawned")
    /\ [][C20_Step]_vars

\* a run in a mode without camera has ended: six tasks were created and
\* cancelled, the camera tasks never existed
C20_Witness ==
    /\ video_mode = "screen"
    /\ loop_state = "finished"
    /\ \A t \in Tasks \ CameraTasks : pc[t] = "cancelled"
    /\ \A t \in CameraTasks : pc[t] = "unspawned"

\* in camera mode an image frame has been put on the queue and sent
C20_CameraFrame ==
    /\ video_mode = "camera"
    /\ Count(sent, "image/jpeg") = 1
    /\ pc["send_frames_to_gemini"] = "sleep"

C23_Step ==
    TextTaken => /\ Len(out_queue_gemini') = Len(out_queue_gemini) + 1
                 /\ pc'["process_text_input_queue"] # "send_client_content"

\* C23: a user text goes to the session through out_queue_gemini: the
\* task that takes it from text_input_queue appends it to the outbound
\* queue, and only send_realtime hands it to the session.
C23_TextViaOutboundQueue == [][C23_Step]_vars

\* a call of stop() starts its timed wait
WaitBegins ==
    \/ stopPc' = "wait" /\ stopPc # "wait"
    \/ loop_state' = "stop_wait" /\ loop_state # "stop_wait"

\* C31: is_running never goes back to true, and once it is false no call of
\* stop() hands shutdown_async_tasks (the sentinel and the cancellation) to
\* the loop or starts a timed wait.
C31_Step ==
    ~is_running => /\ ~is_running'
                   /\ ~WaitBegins
                   /\ shutdownPc' = "scheduled" => shutdownPc = "scheduled"

C31_StopIdempotent == [][C31_Step]_vars

\* what the code keeps of C31: the flag never goes back to true, and a call
\* of stop() that finds it false at line 457 goes straight to the audio stream
C31_FlagMonotonic ==
    [][/\ ~is_running => ~is_running'
       /\ (~is_running /\ stopPc = "idle" /\ stopPc' # "idle") => stopPc' = "close"
       /\ (~is_running /\ loop_state = "stop_guard" /\ loop_state' # "stop_guard")
              => loop_state' = "finished"]_vars

(***************************************************************************)
(* The specifications.                                                     *)
(***************************************************************************)
InitFS == FsInit /\ LifeInitRunning(OutTasksInit) /\ OutInit /\ TurnInit /\ TtsIdle

SpecFS == InitFS /\ [][NextFS]_vars

InitOut == FsInit /\ LifeInitRunning(OutTasksInit) /\ OutInit /\ TurnInit /\ TtsIdle

NextOut ==
    \/ listen_audio_read
    \/ listen_audio_put
    \/ stream_camera_to_gui
    \/ send_frames_wake
    \/ send_frames_put
    \/ send_realtime_get
    \/ send_realtime_sent
    \/ send_realtime_raise
    \/ stop_enter
    \/ shutdown_async_tasks

SpecOut == InitOut /\ [][NextOut]_vars

InitTurn == FsInit /\ LifeInitRunning(TurnTasksInit) /\ OutInit /\ TurnInit /\ TtsIdle

NextTurn ==
    \/ receive_tool_call
    \/ tool_response_sent
    \/ receive_content
    \/ turn_complete
    \/ receive_raise
    \/ stop_enter
    \/ shutdown_async_tasks

SpecTurn == InitTurn /\ [][NextTurn]_vars

\* receive_text, tts and process_text_input_queue wait for their inputs
InitTTS == FsInit /\ LifeInitRunning(TtsTasksInit) /\ OutInit /\ TurnInit /\ TtsIdle

NextTTS ==
    \/ receive_text_chunk
    \/ turn_complete
    \/ tts_get
    \/ tts_connected
    \/ tts_connect_raise
    \/ tts_config_sent
    \/ tts_first_sent
    \/ tts_inner_get
    \/ tts_chunk_sent
    \/ tts_final_sent
    \/ tts_listen_awaited
    \/ tts_listen_raised
    \/ tts_send_raise
    \/ listen_start
    \/ listen_recv_audio
    \/ listen_recv_final
    \/ listen_closed
    \/ listen_raise
    \/ handle_user_text
    \/ process_text_get
    \/ process_text_sent
    \/ process_text_raise
    \/ stop_enter
    \/ shutdown_async_tasks

SpecTTS == InitTTS /\ [][NextTTS]_vars

\* AI_Core has been constructed and the backend thread created
LifeInit ==
    /\ is_running = TRUE
    /\ pc = [t \in Tasks |-> "unspawned"]
    /\ loop_state = "new"
    /\ stopPc = "idle"
    /\ shutdownPc = "none"
    /\ timeouts = 0
    /\ audio_stream = "none"
    /\ video_mode \in VideoModes
    /\ text_input_queue = <<>>

InitLife == FsInit /\ LifeInit /\ OutInit /\ TurnInit /\ TtsIdle

NextLife ==
    \/ start_event_loop
    \/ main_task_runner
    \/ run_connect_raise
    \/ run_gather_done
    \/ task_start
    \/ device_opened
    \/ handle_user_text
    \/ process_text_get
    \/ process_text_sent
    \/ process_text_raise
    \/ stop_enter
    \/ shutdown_async_tasks
    \/ shutdown_async_done
    \/ stop_acknowledged
    \/ stop_timeout
    \/ stop_close

SpecLife == InitLife /\ [][NextLife]_vars

\* the backend asks for a folder, whenever it sends a chunk
FolderChunks ==
    {ToolCallChunk(<<FunctionCall("c1", "create_folder",
                                  Args(PyStr(<<"d">>), PyNone, PyNone))>>)}

receive_folder_call == ReceiveToolCall(FolderChunks)

SessionTasksInit ==
    [t \in Tasks |->
        CASE t = "listen_audio" -> "read"
          [] t \in {"send_realtime", "process_text_input_queue"} -> "get"
          [] t = "receive_text" -> "receive"
          [] OTHER -> "unspawned"]

\* the tasks that hold the session, with the microphone feeding send_realtime
InitSession ==
    FsInit /\ LifeInitRunning(SessionTasksInit) /\ OutInit /\ TurnInit /\ TtsIdle

\* (listen_audio never finds the queue full: it reads MaxAudio frames)
NextSession ==
    \/ listen_audio_read
    \/ send_realtime_get
    \/ send_realtime_sent
    \/ send_realtime_raise
    \/ receive_folder_call
    \/ tool_response_sent
    \/ turn_complete
    \/ handle_user_text
    \/ process_text_get
    \/ process_text_sent
    \/ process_text_raise

SpecSession == InitSession /\ [][NextSession]_vars

\* the backend calls any tool with any arguments
ToolChunks ==
    {ToolCallChunk(<<FunctionCall("c1", "create_folder", Args(path, PyNone, PyNone))>>) :
        path \in PathArgs}
    \cup {ToolCallChunk(<<FunctionCall("c1", name, Args(PyNone, path, content))>>) :
            name \in {"create_file", "edit_file"}, path \in PathArgs, content \in ContentArgs}
    \cup {ToolCallChunk(<<FunctionCall("c1", "get_weather", Args(PyNone, PyNone, PyNone)),
                          FunctionCall("c2", "create_folder",
                                       Args(PyStr(<<"d">>), PyNone, PyNone))>>),
          ToolCallChunk(<<FunctionCall("c1", "create_folder",
                                       Args(PyStr(<<"d">>), PyNone, PyNone)),
                          FunctionCall("c2", "create_file",
                                       Args(PyNone, PyStr(<<"d", "n">>), PyStr(<<"h">>)))>>)}

receive_tool_calls == ReceiveToolCall(ToolChunks)

InitTool == InitTurn

NextTool ==
    \/ receive_tool_calls
    \/ tool_response_sent
    \/ turn_complete
    \/ receive_raise

SpecTool == InitTool /\ [][NextTool]_vars

\* run from the start of the backend thread to the end of gather, with the
\* camera tasks and send_realtime at work on the outbound queue (the
\* microphone is silent: listen_audio waits in its first read)
NextMode ==
    \/ start_event_loop
    \/ main_task_runner
    \/ run_gather_done
    \/ task_start
    \/ device_opened
    \/ stream_camera_to_gui
    \/ send_frames_wake
    \/ send_realtime_get
    \/ send_realtime_sent
    \/ send_realtime_raise
    \/ stop_enter
    \/ shutdown_async_tasks

SpecMode == InitLife /\ [][NextMode]_vars

\* the backend sends text deltas, alone, with grounding uris, or in a
\* chunk that also calls a tool
DeltaChunks ==
    {ContentChunk(<<>>, <<>>, "Hi"),
     ContentChunk(<<"u1">>, <<ExecutableCode(<<"print(", "2", ")">>)>>, "Hi"),
     MixedChunk(<<FunctionCall("c1", "create_folder",
                               Args(PyStr(<<"d">>), PyNone, PyNone))>>, "Hi"),
     ToolCallChunk(<<FunctionCall("c1", "create_folder",
                                  Args(PyStr(<<"d">>), PyNone, PyNone))>>)}

receive_delta_call == ReceiveToolCall(DeltaChunks)
receive_delta == ReceiveContent(DeltaChunks)

NextDelta ==
    \/ receive_delta_call
    \/ receive_delta
    \/ tool_response_sent
    \/ turn_complete
    \/ receive_raise

SpecDelta == InitTurn /\ [][NextDelta]_vars

\* the life of the core with the two callers of stop() on their threads
NextStop ==
    \/ start_event_loop
    \/ main_task_runner
    \/ run_connect_raised
    \/ run_gathered
    \/ run_finally
    \/ run_stop_guard
    \/ run_stop_clear_flag
    \/ run_stop_timeout
    \/ task_start
    \/ device_opened
    \/ handle_user_text
    \/ process_text_get
    \/ process_text_sent
    \/ process_text_raise
    \/ stop_guard
    \/ stop_clear_flag
    \/ shutdown_async_tasks
    \/ shutdown_async_done
    \/ stop_acknowledged
    \/ stop_timeout
    \/ stop_close

SpecStop == InitLife /\ [][NextStop]_vars

====
